---- MODULE Spec2Model ----
(***************************************************************************)
(* Yarotech sales management: the backend tables with their row-level      *)
(* security policies and audit triggers (supabase/migrations), and the     *)
(* front-end handlers that read and write them.                            *)
(*                                                                         *)
(* Money is counted in mills (1/1000 of a currency unit) so that the       *)
(* numeric(10, 2) columns, which round to 10 mills, are a real conversion. *)
(* Table rows are records; a table is a function from the ids of its rows. *)
(***************************************************************************)
EXTENDS Integers, Sequences, FiniteSets, TLC

VARIABLES profiles, products, sales, sale_items, company_settings,
          audit_logs, nextId, lastOp

\* the SalesForm component of the signed-in user and the page that hosts it
VARIABLES user, customerName, items, formProducts, loading, error,
          issuerName, pending, pc, submit, createdSaleId, emailRequests

\* the InvoicePreview and SalesHistory components of the same user, and what
\* the browser has saved for them
VARIABLE invoice

\* one call of an invoice generator: its arguments and what came of it
VARIABLE gen

\* AppContent with its useUserRole hook: the signed-in user, the loaded
\* role, the page shown
VARIABLE app

\* the customers table
VARIABLE customers
\* the state of the admin's ProductManagement page
VARIABLE pm
\* the email_settings table
VARIABLE email_settings
\* the send-sale-notification function: its last request and response
VARIABLE edge
\* the state of the admin's AuditLog page
VARIABLE auditView
\* the state of ReportsPage or TransactionMonitoring
VARIABLE report

\* the state outside the sales form and the invoice preview, and all of it
\* but one variable
viewVars == <<gen, app, customers, pm, email_settings, edge, auditView, report>>
restOfGen == <<app, customers, pm, email_settings, edge, auditView, report>>
restOfApp == <<gen, customers, pm, email_settings, edge, auditView, report>>
restOfCustomers == <<gen, app, pm, email_settings, edge, auditView, report>>
restOfPm == <<gen, app, customers, email_settings, edge, auditView, report>>
restOfEmailSettings == <<gen, app, customers, pm, edge, auditView, report>>
restOfEdge == <<gen, app, customers, pm, email_settings, auditView, report>>
restOfAuditView == <<gen, app, customers, pm, email_settings, edge, report>>
restOfReport == <<gen, app, customers, pm, email_settings, edge, auditView>>

formVars == <<user, customerName, items, formProducts, loading, error,
              issuerName, pending, pc, submit, createdSaleId, emailRequests,
              invoice, viewVars>>

dbVars == <<profiles, products, sales, sale_items, company_settings,
            audit_logs, nextId>>

\* the tables, the sales form and the invoice preview
coreVars == <<dbVars, lastOp, user, customerName, items, formProducts, loading,
              error, issuerName, pending, pc, submit, createdSaleId,
              emailRequests, invoice>>

\* ------------------------------------------------------------------ bounds
MaxProducts == 2
MaxSales == 2
MaxSaleItems == 2
MaxAudit == 2
MaxItems == 1
MaxLines == 2
MaxCustomers == 2
MaxLoaded == 2

\* ------------------------------------------------------------- value sets
Users == {"u1", "u2"}
NullUser == "null"
NullId == 0
RoleValues == {"admin", "staff"}
FullName(u) == IF u = "u1" THEN "Ada" ELSE "Bala"

\* amounts a client may send, in mills; 2505 is 2.505 and is not a whole cent
PriceInputs == {1000, 2505}

\* numeric(10, 2): the value is rounded to two decimals, half away from zero
ToNumeric2(x) == ((x + 5) \div 10) * 10

\* ------------------------------------------------------------ RLS helpers
\* "Users can view own profile": USING (auth.uid() = id)
ProfilesSelectUsing(uid, row) == uid = row.id

\* EXISTS (SELECT 1 FROM profiles WHERE profiles.id = auth.uid()
\*         AND profiles.role = r), evaluated under the caller's own policies
HasRole(uid, r) ==
    \E id \in DOMAIN profiles :
        /\ ProfilesSelectUsing(uid, profiles[id])
        /\ profiles[id].id = uid
        /\ profiles[id].role = r

IsAdmin(uid) == HasRole(uid, "admin")
IsStaff(uid) == HasRole(uid, "staff")

\* ------------------------------------------------------- profiles policies
\* "Users can insert own profile": WITH CHECK (auth.uid() = id)
ProfilesInsertCheck(uid, row) == uid = row.id
\* "Users can update own profile": USING (auth.uid() = id)
ProfilesUpdateUsing(uid, row) == uid = row.id
\* ... WITH CHECK (auth.uid() = id)
ProfilesUpdateCheck(uid, row) == uid = row.id

\* ------------------------------------------------------- products policies
\* "Only admins can create products"
ProductsInsertCheck(uid, row) == IsAdmin(uid)
\* "Only admins can update products" (USING and WITH CHECK are the same test)
ProductsUpdateUsing(uid, row) == IsAdmin(uid)
ProductsUpdateCheck(uid, row) == IsAdmin(uid)
\* "Users can delete products" of the first migration, dropped by the second
ProductsDeleteUsingOld(uid, row) == TRUE
\* "Only admins can delete products"
ProductsDeleteUsing(uid, row) == IsAdmin(uid)

\* ----------------------------------------------------------- audit trigger
\* log_audit_event(): the row the trigger inserts for one changed row.
\* SECURITY DEFINER: the insert is not subject to the caller's policies.
AuditEntry(op, table, uid, old, new) ==
    IF op = "INSERT"
    THEN [user_id |-> uid, action_type |-> "CREATE", entity_type |-> table,
          entity_id |-> new.id, details |-> new]
    ELSE IF op = "UPDATE"
    THEN [user_id |-> uid, action_type |-> "UPDATE", entity_type |-> table,
          entity_id |-> new.id, details |-> [old |-> old, new |-> new]]
    ELSE [user_id |-> uid, action_type |-> "DELETE", entity_type |-> table,
          entity_id |-> old.id, details |-> old]

\* the trigger as it would be if declared AFTER INSERT OR UPDATE only
log_audit_event_no_delete(op, table, uid, old, new) ==
    IF op = "DELETE" THEN audit_logs
    ELSE Append(audit_logs, AuditEntry(op, table, uid, old, new))
log_audit_event(op, table, uid, old, new) ==
    Append(audit_logs, AuditEntry(op, table, uid, old, new))

\* the statement a client sent last and whether it changed a row
Op(kind, table, uid, ok) ==
    [kind |-> kind, table |-> table, user |-> uid, ok |-> ok, rows |-> {}]

\* a row with some columns replaced
Patch(row, patch) ==
    [f \in DOMAIN row |-> IF f \in DOMAIN patch THEN patch[f] ELSE row[f]]

Remove(table, id) == [i \in DOMAIN table \ {id} |-> table[i]]

\* ---------------------------------------------------------------- initial
\* The state after the migrations: one of the sample products, an admin
\* profile, a registered user without a profile yet, no sales, an empty
\* audit log.
SampleProduct ==
    [id |-> 1, name |-> "Cable", unit_price |-> 1000, stock_quantity |-> 1,
     is_active |-> TRUE, created_by |-> NullUser]
SampleService ==
    [id |-> 2, name |-> "Router", unit_price |-> 2500, stock_quantity |-> 0,
     is_active |-> TRUE, created_by |-> NullUser]

\* the tables with the profiles of an admin and of the users in staff, and
\* with the given sample products
InitTables(staff, samples) ==
    /\ profiles = [u \in {"u1"} \cup staff |->
                     [id |-> u, full_name |-> FullName(u),
                      role |-> IF u = "u1" THEN "admin" ELSE "staff"]]
    /\ products = [id \in {row.id : row \in samples} |->
                     CHOOSE row \in samples : row.id = id]
    /\ sales = << >>
    /\ sale_items = << >>
    /\ company_settings = [company_name |-> "YAROTECH"]
    /\ audit_logs = << >>
    /\ nextId = [products |-> Cardinality(samples) + 1, sales |-> 1,
                 sale_items |-> 1, customers |-> 1]
    /\ lastOp = Op("none", "none", NullUser, FALSE)

InitDb == InitTables({}, {SampleProduct})

\* SalesForm just mounted for the signed-in user: the useState defaults, and
\* the two loads started by useEffect still in flight
NoSubmit == [items |-> << >>, lines |-> 0, saleId |-> NullId, ok |-> FALSE]
\* InvoicePreview as it mounts (loading false, no message), nothing saved by
\* the browser, no download in flight or finished
NoDownload == [by |-> "none", sale |-> NullId, items |-> 0]
InitInvoice ==
    [loading |-> FALSE, message |-> "", pc |-> "idle", saleId |-> NullId,
     saved |-> {}, alerted |-> FALSE, unhandled |-> FALSE, last |-> NoDownload]
\* no generator call made
NoCall == [pc |-> "none"]
InitComponents ==
    /\ user = "u2"
    /\ customerName = ""
    /\ items = << >>
    /\ formProducts = << >>
    /\ loading = FALSE
    /\ error = ""
    /\ issuerName = ""
    /\ pending = {"loadProducts", "loadUserProfile"}
    /\ pc = "idle"
    /\ submit = NoSubmit
    /\ createdSaleId = NullId
    /\ emailRequests = << >>
    /\ invoice = InitInvoice
\* AppContent as it mounts: the session and the role not yet known, the
\* useState default page
InitApp ==
    [user |-> NullUser, authLoading |-> TRUE, role |-> "null",
     roleLoading |-> TRUE, loads |-> {}, currentPage |-> "dashboard"]
\* ProductManagement as it mounts: no products listed, loading, no message
InitPm == [products |-> << >>, loading |-> TRUE, error |-> "", alerted |-> FALSE]
\* AuditLog as it mounts: no logs, loading
InitAuditView == [logs |-> << >>, loading |-> TRUE]
\* ReportsPage as it mounts, in a browser of time zone UTC: no sales, loading,
\* no filter, nothing exported
InitReport ==
    [page |-> "ReportsPage", tz |-> 0, sales |-> << >>, filteredSales |-> << >>,
     loading |-> TRUE, fromDate |-> 0, toDate |-> 0, searchCustomer |-> << >>,
     searchIssuer |-> << >>, csv |-> << >>]
InitPages ==
    /\ app = InitApp /\ customers = << >> /\ pm = InitPm
    /\ auditView = InitAuditView
\* the row the email settings migration inserts
DefaultEmailSettings ==
    [notification_email |-> "info@yarotech.com.ng", send_on_sale |-> TRUE]
\* no request served
NoRequest == [served |-> FALSE]
InitViews ==
    /\ InitPages
    /\ email_settings = <<DefaultEmailSettings>>
    /\ edge = NoRequest
    /\ report = InitReport
InitForm == InitComponents /\ gen = NoCall /\ InitViews

\* --------------------------------------------------------------- profiles
\* INSERT INTO profiles (id, full_name, role) by an authenticated user
ProfileInsert(uid, id, role) ==
    LET row == [id |-> id, full_name |-> FullName(id), role |-> role]
        ok == id \notin DOMAIN profiles /\ ProfilesInsertCheck(uid, row)
    IN /\ profiles' = IF ok THEN profiles @@ (id :> row) ELSE profiles
       /\ lastOp' = Op("insert", "profiles", uid, ok)
       /\ UNCHANGED <<products, sales, sale_items, company_settings,
                      audit_logs, nextId>>

\* UPDATE profiles SET role = ... WHERE id = ...
ProfileUpdate(uid, id, role) ==
    LET ok == /\ id \in DOMAIN profiles
              /\ ProfilesSelectUsing(uid, profiles[id])
              /\ ProfilesUpdateUsing(uid, profiles[id])
              /\ ProfilesUpdateCheck(uid, Patch(profiles[id], [role |-> role]))
    IN /\ profiles' = IF ok
                      THEN [profiles EXCEPT ![id] = Patch(@, [role |-> role])]
                      ELSE profiles
       /\ lastOp' = Op("update", "profiles", uid, ok)
       /\ UNCHANGED <<products, sales, sale_items, company_settings,
                      audit_logs, nextId>>

\* --------------------------------------------------------------- products
\* INSERT INTO products (name, unit_price, stock_quantity, created_by) ...
\* The AFTER INSERT row trigger products_audit_trigger runs in the statement.
ProductInsert(uid, name, price, stock) ==
    LET row == [id |-> nextId.products, name |-> name,
                unit_price |-> ToNumeric2(price), stock_quantity |-> stock,
                is_active |-> TRUE, created_by |-> uid]
        ok == ProductsInsertCheck(uid, row)
    IN /\ nextId.products <= MaxProducts
       /\ Len(audit_logs) < MaxAudit
       /\ IF ok
          THEN /\ products' = products @@ (row.id :> row)
               /\ audit_logs' = log_audit_event("INSERT", "products", uid, row, row)
               /\ nextId' = [nextId EXCEPT !.products = @ + 1]
          ELSE UNCHANGED <<products, audit_logs, nextId>>
       /\ lastOp' = Op("insert", "products", uid, ok)
       /\ UNCHANGED <<profiles, sales, sale_items, company_settings>>

\* UPDATE products SET <patch> WHERE id = ...; a row the policies hide is
\* not updated.  products_audit_trigger runs for the updated row.
ProductUpdate(uid, id, patch) ==
    LET visible == id \in DOMAIN products /\ ProductsUpdateUsing(uid, products[id])
        new == Patch(products[id], patch)
        ok == visible /\ ProductsUpdateCheck(uid, new)
    IN /\ Len(audit_logs) < MaxAudit
       /\ IF ok
          THEN /\ products' = [products EXCEPT ![id] = new]
               /\ audit_logs' = log_audit_event("UPDATE", "products", uid,
                                                products[id], new)
          ELSE UNCHANGED <<products, audit_logs>>
       /\ lastOp' = Op("update", "products", uid, ok)
       /\ UNCHANGED <<profiles, sales, sale_items, company_settings, nextId>>

\* sale_items.product_id REFERENCES products(id) ON DELETE SET NULL
OnDeleteProductCascade(id) ==
    [i \in DOMAIN sale_items \ {j \in DOMAIN sale_items :
                                   sale_items[j].product_id = id} |->
        sale_items[i]]
OnDeleteProduct(id) ==
    [i \in DOMAIN sale_items |->
        IF sale_items[i].product_id = id
        THEN [sale_items[i] EXCEPT !.product_id = NullId]
        ELSE sale_items[i]]

\* DELETE FROM products WHERE id = ...
ProductDelete(uid, id) ==
    LET ok == id \in DOMAIN products /\ ProductsDeleteUsing(uid, products[id])
    IN /\ Len(audit_logs) < MaxAudit
       /\ IF ok
          THEN /\ products' = Remove(products, id)
               /\ sale_items' = OnDeleteProduct(id)
               /\ audit_logs' = log_audit_event("DELETE", "products", uid,
                                                products[id], products[id])
          ELSE UNCHANGED <<products, sale_items, audit_logs>>
       /\ lastOp' = Op("delete", "products", uid, ok)
       /\ UNCHANGED <<profiles, sales, company_settings, nextId>>

\* ------------------------------------------------------------------ sales
\* "Admins can view all sales"
SalesSelectAdminUsing(uid, row) == IsAdmin(uid)
\* "Staff can view own sales"
SalesSelectStaffUsing(uid, row) == row.issuer_id = uid /\ IsStaff(uid)
\* "Users can view all sales" of the first migration, dropped by the second
SalesSelectAllUsing(uid, row) == TRUE
\* the SELECT policies in force are permissive: a row is visible if one passes
SalesSelectUsingKeepAll(uid, row) ==
    SalesSelectAllUsing(uid, row) \/ SalesSelectAdminUsing(uid, row)
        \/ SalesSelectStaffUsing(uid, row)
SalesSelectUsing(uid, row) ==
    SalesSelectAdminUsing(uid, row) \/ SalesSelectStaffUsing(uid, row)
\* "Users can create sales": WITH CHECK (auth.uid() = issuer_id)
SalesInsertCheck(uid, row) == uid = row.issuer_id
\* "Users can update sales": USING (true) WITH CHECK (true)
SalesUpdateUsing(uid, row) == TRUE
SalesUpdateCheck(uid, row) == TRUE
\* "Users can delete sales": USING (true)
SalesDeleteUsing(uid, row) == TRUE

\* INSERT INTO sales (...) [RETURNING *]; with RETURNING the new row must
\* also pass the SELECT policies.  sales_audit_trigger runs for the row.
SaleInsert(uid, customer, issuer, issuer_name, total, returning) ==
    LET row == [id |-> nextId.sales, customer_name |-> customer,
                issuer_id |-> issuer, issuer_name |-> issuer_name,
                total_amount |-> ToNumeric2(total), status |-> "completed"]
        ok == /\ SalesInsertCheck(uid, row)
              /\ returning => SalesSelectUsing(uid, row)
    IN /\ nextId.sales <= MaxSales
       /\ Len(audit_logs) < MaxAudit
       /\ IF ok
          THEN /\ sales' = sales @@ (row.id :> row)
               /\ audit_logs' = log_audit_event("INSERT", "sales", uid, row, row)
               /\ nextId' = [nextId EXCEPT !.sales = @ + 1]
          ELSE UNCHANGED <<sales, audit_logs, nextId>>
       /\ lastOp' = Op("insert", "sales", uid, ok)
       /\ UNCHANGED <<profiles, products, sale_items, company_settings>>

\* UPDATE sales SET <patch> WHERE id = ...; the WHERE clause makes the
\* SELECT policies apply to the row as well as the UPDATE policy.
SaleUpdate(uid, id, patch) ==
    LET visible == /\ id \in DOMAIN sales
                   /\ SalesSelectUsing(uid, sales[id])
                   /\ SalesUpdateUsing(uid, sales[id])
        new == Patch(sales[id], patch)
        ok == visible /\ SalesUpdateCheck(uid, new)
    IN /\ Len(audit_logs) < MaxAudit
       /\ IF ok
          THEN /\ sales' = [sales EXCEPT ![id] = new]
               /\ audit_logs' = log_audit_event("UPDATE", "sales", uid,
                                                sales[id], new)
          ELSE UNCHANGED <<sales, audit_logs>>
       /\ lastOp' = Op("update", "sales", uid, ok)
       /\ UNCHANGED <<profiles, products, sale_items, company_settings, nextId>>

\* sale_items.sale_id REFERENCES sales(id) ON DELETE CASCADE
OnDeleteSale(id) ==
    [i \in DOMAIN sale_items \ {j \in DOMAIN sale_items :
                                   sale_items[j].sale_id = id} |->
        sale_items[i]]

\* DELETE FROM sales WHERE id = ...
SaleDelete(uid, id) ==
    LET ok == /\ id \in DOMAIN sales
              /\ SalesSelectUsing(uid, sales[id])
              /\ SalesDeleteUsing(uid, sales[id])
    IN /\ Len(audit_logs) < MaxAudit
       /\ IF ok
          THEN /\ sales' = Remove(sales, id)
               /\ sale_items' = OnDeleteSale(id)
               /\ audit_logs' = log_audit_event("DELETE", "sales", uid,
                                                sales[id], sales[id])
          ELSE UNCHANGED <<sales, sale_items, audit_logs>>
       /\ lastOp' = Op("delete", "sales", uid, ok)
       /\ UNCHANGED <<profiles, products, company_settings, nextId>>

\* SELECT id FROM sales: the ids of the rows the SELECT policies show
SalesSelect(uid) ==
    /\ lastOp' = [Op("select", "sales", uid, TRUE) EXCEPT
                    !.rows = {id \in DOMAIN sales : SalesSelectUsing(uid, sales[id])}]
    /\ UNCHANGED dbVars

\* SalesHistory.loadSales: .from('sales').select(...).eq('issuer_id', user.id)
SalesOfIssuer(uid) ==
    {id \in DOMAIN sales :
        SalesSelectUsing(uid, sales[id]) /\ sales[id].issuer_id = uid}
loadSales(uid) ==
    /\ lastOp' = [Op("loadSales", "sales", uid, TRUE) EXCEPT
                    !.rows = SalesOfIssuer(uid)]
    /\ UNCHANGED dbVars

\* ------------------------------------------------------------- sale_items
\* sale_items policies: SELECT, INSERT, UPDATE and DELETE all USING / WITH
\* CHECK (true) for authenticated users
SaleItemsPolicy(uid, row) == TRUE

\* the foreign keys of a sale_items row: each is NULL or names a stored row
\* the foreign keys and a test that the product has the quantity in stock
SaleItemsForeignKeysInStock(row) ==
    /\ row.sale_id = NullId \/ row.sale_id \in DOMAIN sales
    /\ row.product_id = NullId \/ row.product_id \in DOMAIN products
    /\ row.product_id \in DOMAIN products =>
          row.quantity <= products[row.product_id].stock_quantity

SaleItemsForeignKeys(row) ==
    /\ row.sale_id = NullId \/ row.sale_id \in DOMAIN sales
    /\ row.product_id = NullId \/ row.product_id \in DOMAIN products

\* the row stored for one inserted line: numeric(10, 2) columns are rounded
SaleItemRow(id, line) ==
    [id |-> id, sale_id |-> line.sale_id, product_id |-> line.product_id,
     product_name |-> line.product_name, quantity |-> line.quantity,
     unit_price |-> ToNumeric2(line.unit_price),
     total_price |-> ToNumeric2(line.total_price)]

\* INSERT INTO sale_items (...) VALUES (one row)
SaleItemInsert(uid, line) ==
    LET row == SaleItemRow(nextId.sale_items, line)
        ok == SaleItemsPolicy(uid, row) /\ SaleItemsForeignKeys(row)
    IN /\ nextId.sale_items <= MaxSaleItems
       /\ IF ok
          THEN /\ sale_items' = sale_items @@ (row.id :> row)
               /\ nextId' = [nextId EXCEPT !.sale_items = @ + 1]
          ELSE UNCHANGED <<sale_items, nextId>>
       /\ lastOp' = Op("insert", "sale_items", uid, ok)
       /\ UNCHANGED <<profiles, products, sales, company_settings, audit_logs>>

\* UPDATE sale_items SET quantity = ... WHERE id = ...
SaleItemUpdate(uid, id, patch) ==
    LET ok == id \in DOMAIN sale_items /\ SaleItemsPolicy(uid, sale_items[id])
    IN /\ sale_items' = IF ok
                        THEN [sale_items EXCEPT ![id] = Patch(@, patch)]
                        ELSE sale_items
       /\ lastOp' = Op("update", "sale_items", uid, ok)
       /\ UNCHANGED <<profiles, products, sales, company_settings, audit_logs,
                      nextId>>

\* DELETE FROM sale_items WHERE id = ...
SaleItemDelete(uid, id) ==
    LET ok == id \in DOMAIN sale_items /\ SaleItemsPolicy(uid, sale_items[id])
    IN /\ sale_items' = IF ok THEN Remove(sale_items, id) ELSE sale_items
       /\ lastOp' = Op("delete", "sale_items", uid, ok)
       /\ UNCHANGED <<profiles, products, sales, company_settings, audit_logs,
                      nextId>>

\* ------------------------------------------------------- company_settings
\* "Authenticated users can update company settings": USING (true)
CompanySettingsUpdate(uid, name) ==
    /\ company_settings' = [company_settings EXCEPT !.company_name = name]
    /\ lastOp' = Op("update", "company_settings", uid, TRUE)
    /\ UNCHANGED <<profiles, products, sales, sale_items, audit_logs, nextId>>

\* ------------------------------------------------------------- audit_logs
\* "Admins can view all audit logs"
AuditLogsSelectUsing(uid, row) == IsAdmin(uid)
\* "System can insert audit logs": FOR INSERT TO authenticated WITH CHECK (true)
AuditLogsInsertCheck(uid, row) == TRUE
\* an UPDATE policy like the one on sales: USING (true)
AuditLogsUpdateUsingOpen(uid, row) == TRUE
\* row-level security is enabled and no UPDATE or DELETE policy exists
AuditLogsUpdateUsing(uid, row) == FALSE
AuditLogsDeleteUsing(uid, row) == FALSE

\* INSERT INTO audit_logs (...) sent by a client
AuditInsert(uid, row) ==
    LET ok == AuditLogsInsertCheck(uid, row)
    IN /\ Len(audit_logs) < MaxAudit
       /\ audit_logs' = IF ok THEN Append(audit_logs, row) ELSE audit_logs
       /\ lastOp' = Op("insert", "audit_logs", uid, ok)
       /\ UNCHANGED <<profiles, products, sales, sale_items, company_settings,
                      nextId>>

\* UPDATE audit_logs SET action_type = ... WHERE <i-th row>
AuditUpdate(uid, i, action) ==
    LET ok == /\ i \in DOMAIN audit_logs
              /\ AuditLogsSelectUsing(uid, audit_logs[i])
              /\ AuditLogsUpdateUsing(uid, audit_logs[i])
    IN /\ audit_logs' = IF ok
                        THEN [audit_logs EXCEPT ![i].action_type = action]
                        ELSE audit_logs
       /\ lastOp' = Op("update", "audit_logs", uid, ok)
       /\ UNCHANGED <<profiles, products, sales, sale_items, company_settings,
                      nextId>>

\* DELETE FROM audit_logs WHERE <i-th row>
AuditDelete(uid, i) ==
    LET ok == /\ i \in DOMAIN audit_logs
              /\ AuditLogsSelectUsing(uid, audit_logs[i])
              /\ AuditLogsDeleteUsing(uid, audit_logs[i])
    IN /\ audit_logs' = IF ok
                        THEN SubSeq(audit_logs, 1, i - 1) \o
                             SubSeq(audit_logs, i + 1, Len(audit_logs))
                        ELSE audit_logs
       /\ lastOp' = Op("delete", "audit_logs", uid, ok)
       /\ UNCHANGED <<profiles, products, sales, sale_items, company_settings,
                      nextId>>

\* SELECT * FROM audit_logs: the positions of the rows the policy shows
AuditSelect(uid) ==
    /\ lastOp' = [Op("select", "audit_logs", uid, TRUE) EXCEPT
                    !.rows = {i \in DOMAIN audit_logs :
                                AuditLogsSelectUsing(uid, audit_logs[i])}]
    /\ UNCHANGED dbVars

vars == <<profiles, products, sales, sale_items, company_settings,
          audit_logs, nextId, lastOp, user, customerName, items, formProducts,
          loading, error, issuerName, pending, pc, submit, createdSaleId,
          emailRequests, invoice, viewVars>>

\* ------------------------------------------------- statements clients send
PricePatch == [unit_price |-> 2510]
ProductPatches == {PricePatch, [is_active |-> FALSE], [name |-> "Router"]}
SalePatch == [status |-> "cancelled"]
SaleItemPatch == [quantity |-> 3]
\* a line a client sends for a stored sale: a snapshot of the sample product
LineInputs ==
    {[sale_id |-> s, product_id |-> p, product_name |-> "Cable", quantity |-> 2,
      unit_price |-> 1000, total_price |-> 2000] :
        s \in DOMAIN sales, p \in 1..MaxProducts}
Other(u) == CHOOSE v \in Users : v # u
\* an audit row written by a client: it names the other user and the deletion
\* of a product that was never deleted
ForgedAudit(u) ==
    [user_id |-> Other(u), action_type |-> "DELETE", entity_type |-> "products",
     entity_id |-> 1, details |-> [forged |-> TRUE]]

\* the migrated database, and the form of a user who has not touched it
Init == InitDb /\ InitForm

\* Any authenticated user sends any statement on profiles, products, sales,
\* company_settings and audit_logs.
NextRls ==
    \/ \E uid \in Users, id \in Users, r \in RoleValues : ProfileInsert(uid, id, r) /\ UNCHANGED formVars
    \/ \E uid \in Users, id \in Users, r \in RoleValues : ProfileUpdate(uid, id, r) /\ UNCHANGED formVars
    \/ \E uid \in Users : ProductInsert(uid, "Router", 2505, 0) /\ UNCHANGED formVars
    \/ \E uid \in Users, id \in 1..MaxProducts : ProductUpdate(uid, id, PricePatch) /\ UNCHANGED formVars
    \/ \E uid \in Users, id \in 1..MaxProducts : ProductDelete(uid, id) /\ UNCHANGED formVars
    \/ \E uid \in Users, issuer \in Users, returning \in BOOLEAN :
          SaleInsert(uid, "Musa", issuer, FullName(issuer), 2000, returning) /\ UNCHANGED formVars
    \/ \E uid \in Users, id \in 1..MaxSales : SaleUpdate(uid, id, SalePatch) /\ UNCHANGED formVars
    \/ \E uid \in Users, id \in 1..MaxSales : SaleDelete(uid, id) /\ UNCHANGED formVars
    \/ \E uid \in Users : SalesSelect(uid) /\ UNCHANGED formVars
    \/ \E uid \in Users : loadSales(uid) /\ UNCHANGED formVars
    \/ \E uid \in Users : CompanySettingsUpdate(uid, "ACME") /\ UNCHANGED formVars
    \/ \E uid \in Users : AuditInsert(uid, ForgedAudit(uid)) /\ UNCHANGED formVars
    \/ \E uid \in Users, i \in DOMAIN audit_logs : AuditUpdate(uid, i, "CREATE") /\ UNCHANGED formVars
    \/ \E uid \in Users, i \in DOMAIN audit_logs : AuditDelete(uid, i) /\ UNCHANGED formVars
    \/ \E uid \in Users : AuditSelect(uid) /\ UNCHANGED formVars

SpecRls == Init /\ [][NextRls]_vars

\* Sales with their line items while the catalogue changes under them.
NextItems ==
    \/ \E uid \in Users, p \in PriceInputs : ProductInsert(uid, "Router", p, 0) /\ UNCHANGED formVars
    \/ \E uid \in Users, id \in 1..MaxProducts, patch \in ProductPatches :
          ProductUpdate(uid, id, patch) /\ UNCHANGED formVars
    \/ \E uid \in Users, id \in 1..MaxProducts : ProductDelete(uid, id) /\ UNCHANGED formVars
    \/ \E uid \in Users : SaleInsert(uid, "Musa", uid, FullName(uid), 2000, FALSE) /\ UNCHANGED formVars
    \/ \E uid \in Users, id \in 1..MaxSales : SaleDelete(uid, id) /\ UNCHANGED formVars
    \/ \E uid \in Users, line \in LineInputs : SaleItemInsert(uid, line) /\ UNCHANGED formVars
    \/ \E uid \in Users, id \in 1..MaxSaleItems : SaleItemUpdate(uid, id, SaleItemPatch) /\ UNCHANGED formVars
    \/ \E uid \in Users, id \in 1..MaxSaleItems : SaleItemDelete(uid, id) /\ UNCHANGED formVars

SpecItems == Init /\ [][NextItems]_vars

\* -------------------------------------------------------------- SalesForm
\* "All authenticated users can view products": USING (true)
ProductsSelectUsing(uid, row) == TRUE

\* .order('name'): the position of a name in the collation order
NameRank(n) == IF n = "Cable" THEN 1 ELSE 2

\* the sequences that list the rows of ids once each, ordered by name
OrderedByName(ids) ==
    {s \in [1..Cardinality(ids) -> ids] :
        /\ \A i, j \in DOMAIN s : i # j => s[i] # s[j]
        /\ \A i, j \in DOMAIN s :
              i < j => NameRank(products[s[i]].name) <= NameRank(products[s[j]].name)}

\* loadProducts: select('id, name, unit_price').eq('is_active', true).order('name')
loadProducts ==
    /\ "loadProducts" \in pending
    /\ \E s \in OrderedByName({id \in DOMAIN products :
                                 /\ ProductsSelectUsing(user, products[id])
                                 /\ products[id].is_active}) :
          formProducts' = [i \in DOMAIN s |->
                             [id |-> s[i], name |-> products[s[i]].name,
                              unit_price |-> products[s[i]].unit_price]]
    /\ pending' = pending \ {"loadProducts"}
    /\ UNCHANGED <<dbVars, lastOp, user, customerName, items, loading, error,
                   issuerName, pc, submit, createdSaleId, emailRequests>>

\* loadUserProfile: select('full_name').eq('id', user.id).maybeSingle()
loadUserProfile ==
    /\ "loadUserProfile" \in pending
    /\ issuerName' = IF \E id \in DOMAIN profiles :
                           ProfilesSelectUsing(user, profiles[id]) /\ id = user
                     THEN profiles[user].full_name
                     ELSE issuerName
    /\ pending' = pending \ {"loadUserProfile"}
    /\ UNCHANGED <<dbVars, lastOp, user, customerName, items, formProducts,
                   loading, error, pc, submit, createdSaleId, emailRequests>>

\* Once onSaleCreated has run the page renders InvoicePreview, a modal
\* overlay (fixed inset-0, z-50) over the form, until it is closed.
FormActive == createdSaleId = NullId

\* onChange of the customer name input
setCustomerName(value) ==
    /\ FormActive
    /\ customerName' = value
    /\ UNCHANGED <<dbVars, lastOp, user, items, formProducts, loading, error,
                   issuerName, pending, pc, submit, createdSaleId, emailRequests>>

\* addItem: a line for the first loaded product, quantity 1
addItem ==
    /\ FormActive
    /\ Len(items) < MaxItems
    /\ IF Len(formProducts) = 0
       THEN items' = items
       ELSE items' = Append(items,
                [product_id |-> formProducts[1].id,
                 product_name |-> formProducts[1].name,
                 quantity |-> 1,
                 unit_price |-> formProducts[1].unit_price,
                 total_price |-> formProducts[1].unit_price])
    /\ UNCHANGED <<dbVars, lastOp, user, customerName, formProducts, loading,
                   error, issuerName, pending, pc, submit, createdSaleId,
                   emailRequests>>

\* The items array captured by a handleSubmit in flight holds the line
\* objects themselves.  An element of the captured array is kept as the
\* position (live) of its object in the current items array while the
\* object is still there, and as the object's last value (val) once
\* removeItem has dropped it from items.
NoLine == [product_id |-> NullId, product_name |-> "", quantity |-> 0,
           unit_price |-> 0, total_price |-> 0]
Captured(array) == [i \in DOMAIN array |-> [live |-> i, val |-> NoLine]]
Detached(captured, index) ==
    [k \in DOMAIN captured |->
        IF captured[k].live = index THEN [live |-> 0, val |-> items[index]]
        ELSE IF captured[k].live > index
        THEN [captured[k] EXCEPT !.live = @ - 1]
        ELSE captured[k]]
\* the objects of the captured array as they are now
Resolve(captured) ==
    [k \in DOMAIN captured |->
        IF captured[k].live > 0 THEN items[captured[k].live] ELSE captured[k].val]

\* removeItem: items.filter((_, i) => i !== index)
removeItem(index) ==
    /\ FormActive
    /\ index \in DOMAIN items
    /\ items' = SubSeq(items, 1, index - 1) \o SubSeq(items, index + 1, Len(items))
    /\ submit' = [submit EXCEPT !.items = Detached(@, index)]
    /\ UNCHANGED <<dbVars, lastOp, user, customerName, formProducts, loading,
                   error, issuerName, pending, pc, createdSaleId, emailRequests>>

\* the line object after updateItem has assigned to it
UpdatedItem(item, field, value) ==
    IF field = "product_id"
    THEN IF \E k \in DOMAIN formProducts : formProducts[k].id = value
         THEN LET product == formProducts[CHOOSE k \in DOMAIN formProducts :
                                             formProducts[k].id = value]
              IN [item EXCEPT !.product_id = product.id,
                              !.product_name = product.name,
                              !.unit_price = product.unit_price,
                              !.total_price = item.quantity * product.unit_price]
         ELSE item
    ELSE IF field = "quantity"
    THEN [item EXCEPT !.quantity = value, !.total_price = value * item.unit_price]
    ELSE IF field = "unit_price"
    THEN [item EXCEPT !.unit_price = value, !.total_price = item.quantity * value]
    ELSE item

\* updateItem: newItems = [...items] copies the array, not its objects, so
\* the assignments are made to the object that the old array holds too
updateItem(index, field, value) ==
    /\ FormActive
    /\ index \in DOMAIN items
    /\ items' = [items EXCEPT ![index] = UpdatedItem(@, field, value)]
    /\ UNCHANGED <<dbVars, lastOp, user, customerName, formProducts, loading,
                   error, issuerName, pending, pc, submit, createdSaleId,
                   emailRequests>>

\* calculateTotal: items.reduce((sum, item) => sum + item.total_price, 0)
RECURSIVE SumTotalPrice(_)
SumTotalPrice(array) ==
    IF array = << >> THEN 0
    ELSE array[1].total_price + SumTotalPrice(Tail(array))
calculateTotal == SumTotalPrice(items)

\* customerName.trim()
Trim(str) == IF str = " " THEN "" ELSE str

\* the submit button: disabled={loading || items.length === 0}
SubmitEnabled == ~loading /\ Len(items) > 0

\* the browser's validation of the form before it dispatches submit: the
\* name is required, quantity has min 1 and whole steps, unit price has
\* min 0 and step 0.01
FormValid ==
    /\ customerName # ""
    /\ \A i \in DOMAIN items :
          /\ items[i].quantity >= 1
          /\ items[i].unit_price >= 0 /\ items[i].unit_price % 10 = 0

\* handleSubmit testing customerName without trim()
handleSubmitNoTrim ==
    /\ pc = "idle"
    /\ FormActive
    /\ IF customerName = ""
       THEN /\ error' = "Customer name is required"
            /\ UNCHANGED <<dbVars, lastOp, loading, pc, submit>>
       ELSE IF Len(items) = 0
       THEN /\ error' = "Add at least one item"
            /\ UNCHANGED <<dbVars, lastOp, loading, pc, submit>>
       ELSE /\ error' = ""
            /\ loading' = TRUE
            /\ SaleInsert(user, customerName, user, issuerName, calculateTotal, TRUE)
            /\ submit' = [items |-> Captured(items), lines |-> Len(items),
                          saleId |-> nextId.sales,
                          ok |-> lastOp'.ok]
            /\ pc' = "saleInserted"
    /\ UNCHANGED <<user, customerName, items, formProducts, issuerName,
                   pending, createdSaleId, emailRequests>>

\* handleSubmit up to its first await: validation, setLoading(true), the
\* total, and the insert into sales (with .select().single())
handleSubmit ==
    /\ pc = "idle"
    /\ FormActive
    /\ IF Trim(customerName) = ""
       THEN /\ error' = "Customer name is required"
            /\ UNCHANGED <<dbVars, lastOp, loading, pc, submit>>
       ELSE IF Len(items) = 0
       THEN /\ error' = "Add at least one item"
            /\ UNCHANGED <<dbVars, lastOp, loading, pc, submit>>
       ELSE /\ error' = ""
            /\ loading' = TRUE
            /\ SaleInsert(user, customerName, user, issuerName, calculateTotal, TRUE)
            /\ submit' = [items |-> Captured(items), lines |-> Len(items),
                          saleId |-> nextId.sales,
                          ok |-> lastOp'.ok]
            /\ pc' = "saleInserted"
    /\ UNCHANGED <<user, customerName, items, formProducts, issuerName,
                   pending, createdSaleId, emailRequests>>

\* a click on the enabled submit button of a valid form
SubmitClick == SubmitEnabled /\ FormValid /\ handleSubmit

\* INSERT INTO sale_items VALUES (several rows): all rows or none
SaleItemsInsertMany(uid, lines) ==
    LET rows == [i \in DOMAIN lines |->
                   SaleItemRow(nextId.sale_items + i - 1, lines[i])]
        ok == \A i \in DOMAIN rows :
                 SaleItemsPolicy(uid, rows[i]) /\ SaleItemsForeignKeys(rows[i])
    IN /\ nextId.sale_items + Len(lines) - 1 <= MaxSaleItems
       /\ IF ok
          THEN /\ sale_items' = sale_items @@
                                [id \in {rows[i].id : i \in DOMAIN rows} |->
                                    rows[id - nextId.sale_items + 1]]
               /\ nextId' = [nextId EXCEPT !.sale_items = @ + Len(lines)]
          ELSE UNCHANGED <<sale_items, nextId>>
       /\ lastOp' = Op("insert", "sale_items", uid, ok)
       /\ UNCHANGED <<profiles, products, sales, company_settings, audit_logs>>

\* the catch and finally blocks of handleSubmit
SubmitFailed ==
    /\ error' = "Failed to create sale. Please try again."
    /\ loading' = FALSE
    /\ pc' = "idle"
    /\ submit' = NoSubmit

\* handleSubmit after the sales insert has answered: throw on saleError,
\* else map the captured items to rows and insert them into sale_items
\* (the captured array is not read again)
handleSubmitItems ==
    /\ pc = "saleInserted"
    /\ IF ~submit.ok
       THEN SubmitFailed /\ UNCHANGED <<dbVars, lastOp>>
       ELSE /\ LET captured == Resolve(submit.items)
               IN SaleItemsInsertMany(user,
                     [i \in DOMAIN captured |->
                        [sale_id |-> submit.saleId,
                         product_id |-> captured[i].product_id,
                         product_name |-> captured[i].product_name,
                         quantity |-> captured[i].quantity,
                         unit_price |-> captured[i].unit_price,
                         total_price |-> captured[i].total_price]])
            /\ submit' = [submit EXCEPT !.items = << >>, !.ok = lastOp'.ok]
            /\ pc' = "itemsInserted"
            /\ UNCHANGED <<loading, error>>
    /\ UNCHANGED <<user, customerName, items, formProducts, issuerName,
                   pending, createdSaleId, emailRequests>>

\* handleSubmitDone without the throw on itemsError
handleSubmitDoneNoThrow ==
    /\ pc = "itemsInserted"
    /\ emailRequests' = emailRequests @@ (submit.saleId :> "started")
    /\ customerName' = ""
    /\ items' = << >>
    /\ createdSaleId' = submit.saleId
    /\ loading' = FALSE
    /\ pc' = "idle"
    /\ submit' = NoSubmit
    /\ UNCHANGED <<error, dbVars, lastOp, user, formProducts, issuerName, pending>>

\* handleSubmitDone awaiting the notification, whose failure is thrown into
\* the catch block of handleSubmit
handleSubmitDoneAwaited ==
    /\ pc = "itemsInserted"
    /\ \E outcome \in {"delivered", "unreachable"} :
          IF ~submit.ok \/ outcome # "delivered"
          THEN /\ SubmitFailed
               /\ emailRequests' = IF submit.ok
                                   THEN emailRequests @@ (submit.saleId :> outcome)
                                   ELSE emailRequests
               /\ UNCHANGED <<customerName, items, createdSaleId>>
          ELSE /\ emailRequests' = emailRequests @@ (submit.saleId :> outcome)
               /\ customerName' = ""
               /\ items' = << >>
               /\ createdSaleId' = submit.saleId
               /\ loading' = FALSE
               /\ pc' = "idle"
               /\ submit' = NoSubmit
               /\ UNCHANGED error
    /\ UNCHANGED <<dbVars, lastOp, user, formProducts, issuerName, pending>>

\* handleSubmit after the sale_items insert has answered: throw on
\* itemsError, else sendEmailNotification(saleData.id) without awaiting it,
\* reset the form and call onSaleCreated (the page keeps the id to show the
\* invoice preview); finally setLoading(false)
handleSubmitDone ==
    /\ pc = "itemsInserted"
    /\ IF ~submit.ok
       THEN SubmitFailed /\ UNCHANGED <<customerName, items, createdSaleId,
                                        emailRequests>>
       ELSE /\ emailRequests' = emailRequests @@ (submit.saleId :> "started")
            /\ customerName' = ""
            /\ items' = << >>
            /\ createdSaleId' = submit.saleId
            /\ loading' = FALSE
            /\ pc' = "idle"
            /\ submit' = NoSubmit
            /\ UNCHANGED error
    /\ UNCHANGED <<dbVars, lastOp, user, formProducts, issuerName, pending>>

\* sendEmailNotification(saleId), started by handleSubmit and not awaited,
\* comes to its end: the request was delivered, the function answered with
\* an error status, or getSession or fetch threw (no session, function
\* unreachable) into the catch block, which logs
NotificationOutcomes == {"delivered", "errorResponse", "unreachable", "noSession"}
sendEmailNotification(saleId, outcome) ==
    /\ saleId \in DOMAIN emailRequests
    /\ emailRequests[saleId] = "started"
    /\ emailRequests' = [emailRequests EXCEPT ![saleId] = outcome]
    /\ UNCHANGED <<dbVars, lastOp, user, customerName, items, formProducts,
                   loading, error, issuerName, pending, pc, submit,
                   createdSaleId, invoice, viewVars>>

\* the values typed into the quantity and unit price inputs
QuantityInputs == {2}
UnitPriceInputs == {3000}

\* One staff user fills in and submits the sales form.
InitSalesForm ==
    /\ InitTables({"u2"}, {SampleProduct, SampleService})
    /\ InitForm
NextForm ==
    \/ loadProducts /\ UNCHANGED <<invoice, viewVars>>
    \/ loadUserProfile /\ UNCHANGED <<invoice, viewVars>>
    \/ \E value \in {" ", "Musa"} : setCustomerName(value) /\ UNCHANGED <<invoice, viewVars>>
    \/ addItem /\ UNCHANGED <<invoice, viewVars>>
    \/ \E index \in 1..MaxItems : removeItem(index) /\ UNCHANGED <<invoice, viewVars>>
    \/ \E index \in 1..MaxItems, id \in 1..MaxProducts :
          updateItem(index, "product_id", id) /\ UNCHANGED <<invoice, viewVars>>
    \/ \E index \in 1..MaxItems, value \in QuantityInputs :
          updateItem(index, "quantity", value) /\ UNCHANGED <<invoice, viewVars>>
    \/ \E index \in 1..MaxItems, value \in UnitPriceInputs :
          updateItem(index, "unit_price", value) /\ UNCHANGED <<invoice, viewVars>>
    \/ SubmitClick /\ UNCHANGED <<invoice, viewVars>>
    \/ handleSubmitItems /\ UNCHANGED <<invoice, viewVars>>
    \/ handleSubmitDone /\ UNCHANGED <<invoice, viewVars>>

SpecForm == InitSalesForm /\ [][NextForm]_vars


\* --------------------------------------------------------------- invoices
\* JavaScript values as the generators see them: undefined (also NaN), an
\* array of a given length, an object that is not an array, a value that is
\* undefined; the length of a value (undefined unless it is an array), a
\* field of an object (undefined unless the object has it), isNaN and
\* falsiness of a number or undefined
Undefined == -1
JsArray(n) == [type |-> "array", length |-> n]
JsObject == [type |-> "object", length |-> Undefined]
JsUndefined == [type |-> "undefined", length |-> Undefined]
Length(v) == IF v.type = "array" THEN v.length ELSE Undefined
Field(obj, f) == IF f \in DOMAIN obj THEN obj[f] ELSE Undefined
IsNaN(x) == x = Undefined
Falsy(x) == x = Undefined \/ x = 0

\* Dates are day numbers; BadDate is a string that new Date cannot parse.
\* new Date(x).getTime(): NaN for undefined and for such a string
BadDate == 0
GetTime(x) == IF x = Undefined \/ x = BadDate THEN Undefined ELSE x

\* the options argument: the default {} and { returnPdfBlob: true }
NoOptions == [returnPdfBlob |-> FALSE]
BlobOptions == [returnPdfBlob |-> TRUE]

\* what a call of a generator comes to: the value returned ("null", "doc",
\* "blob", or "none" when it threw), the files saved, an alert shown, the
\* message of the error thrown to the caller
Outcome(returned, saved, alerted, thrown) ==
    [returned |-> returned, saved |-> saved, alerted |-> alerted,
     thrown |-> thrown]

\* utils/invoiceGenerator.ts generateInvoicePDF(sale, items, options = {}):
\* the three checks throw into the catch block, which alerts and returns
\* null; otherwise the blob is returned, or the document is saved under its
\* file name and returned
InvoiceFile(by, id) == [by |-> by, sale |-> id]
generateInvoicePDFNoItemsCheck(sale, itemsArg, options) ==
    IF options.returnPdfBlob THEN Outcome("blob", {}, FALSE, "")
    ELSE Outcome("doc", {InvoiceFile("generateInvoicePDF", sale.id)}, FALSE, "")

generateInvoicePDF(sale, itemsArg, options) ==
    LET noItems == Falsy(Length(itemsArg))
        invalidTotal == IsNaN(Field(sale, "total")) \/ Field(sale, "total") <= 0
        invalidDate == IsNaN(GetTime(Field(sale, "sale_date")))
    IN IF noItems \/ invalidTotal \/ invalidDate
       THEN Outcome("null", {}, TRUE, "")
       ELSE IF options.returnPdfBlob THEN Outcome("blob", {}, FALSE, "")
       ELSE Outcome("doc", {InvoiceFile("generateInvoicePDF", sale.id)}, FALSE, "")

\* the generator that takes (sale, companySettings): items = sale.items ||
\* [], throws when there are none or the date is invalid, else returns the
\* document without saving it
generateInvoicePDFOfSale(sale, companySettings) ==
    LET itemsArg == IF "items" \notin DOMAIN sale THEN JsArray(0)
                    ELSE IF sale.items.type = "undefined" THEN JsArray(0)
                    ELSE sale.items
    IN IF Length(itemsArg) = 0
       THEN Outcome("none", {}, FALSE, "No items provided for invoice.")
       ELSE IF IsNaN(GetTime(Field(sale, "created_at")))
       THEN Outcome("none", {}, FALSE, "Invalid sale date.")
       ELSE Outcome("doc", {}, FALSE, "")

\* StaffSalesPage.handleCloseInvoice: setGeneratedSaleId(null) unmounts
\* InvoicePreview, whose state is the useState defaults again at its next
\* mount; a download in flight goes on
handleCloseInvoice ==
    /\ createdSaleId # NullId
    /\ createdSaleId' = NullId
    /\ invoice' = [invoice EXCEPT !.loading = FALSE, !.message = ""]
    /\ UNCHANGED <<dbVars, lastOp, user, customerName, items, formProducts,
                   loading, error, issuerName, pending, pc, submit,
                   emailRequests>>
    /\ UNCHANGED viewVars

\* InvoicePreview.handleDownload up to its first await (button disabled
\* while loading): setLoading(true), setMessage(''), fetchSaleData started
handleDownload ==
    /\ createdSaleId # NullId
    /\ ~invoice.loading
    /\ invoice.pc = "idle"
    /\ invoice' = [invoice EXCEPT !.loading = TRUE, !.message = "",
                                  !.pc = "fetching", !.saleId = createdSaleId,
                                  !.last = NoDownload]
    /\ UNCHANGED <<dbVars, lastOp, user, customerName, items, formProducts,
                   loading, error, issuerName, pending, pc, submit,
                   createdSaleId, emailRequests>>
    /\ UNCHANGED viewVars

\* fetchSaleData: the sale by id (.single() fails unless one row is shown),
\* its sale_items, the company settings or the default object
SaleVisible(uid, id) == id \in DOMAIN sales /\ SalesSelectUsing(uid, sales[id])
ItemsOfSale(uid, id) ==
    {i \in DOMAIN sale_items :
        SaleItemsPolicy(uid, sale_items[i]) /\ sale_items[i].sale_id = id}
SaleWithItems(id, n) == sales[id] @@ [items |-> JsArray(n)]

\* handleDownload after fetchSaleData has answered: generateInvoicePDF(sale,
\* settings), doc.save, the success message; any throw (a fetch error, save
\* called on null) gives the failure message; finally setLoading(false).
\* The setters do nothing once the preview has been unmounted.
handleDownloadDone ==
    /\ invoice.pc = "fetching"
    /\ LET id == invoice.saleId
           mounted == createdSaleId = id
           fetched == SaleVisible(user, id)
           n == Cardinality(ItemsOfSale(user, id))
           result == IF fetched
                     THEN generateInvoicePDF(SaleWithItems(id, n), JsObject,
                                             NoOptions)
                     ELSE Outcome("none", {}, FALSE, "saleError")
           saves == result.returned = "doc"
       IN invoice' =
             [invoice EXCEPT
                !.pc = "idle",
                !.saleId = NullId,
                !.saved = @ \cup result.saved \cup
                          (IF saves
                           THEN {InvoiceFile("handleDownload", id)} ELSE {}),
                !.alerted = @ \/ result.alerted,
                !.message = IF ~mounted THEN @
                            ELSE IF saves
                            THEN "Invoice downloaded successfully!"
                            ELSE "Failed to generate invoice",
                !.loading = IF mounted THEN FALSE ELSE @,
                !.last = [by |-> "handleDownload", sale |-> id,
                          items |-> IF fetched THEN n ELSE 0]]
    /\ UNCHANGED <<dbVars, lastOp, user, customerName, items, formProducts,
                   loading, error, issuerName, pending, pc, submit,
                   createdSaleId, emailRequests>>
    /\ UNCHANGED viewVars

\* SalesHistory.handleDownloadInvoice(sale) for a sale of the loaded list,
\* companySettings loaded: loadSaleItems, generateInvoicePDF(saleData,
\* companySettings), doc.save; nothing catches a throw
handleDownloadInvoice(id) ==
    /\ id \in SalesOfIssuer(user)
    /\ invoice.pc = "idle"
    /\ LET n == Cardinality(ItemsOfSale(user, id))
           result == generateInvoicePDF(SaleWithItems(id, n), JsObject,
                                        NoOptions)
           saves == result.returned = "doc"
       IN invoice' =
             [invoice EXCEPT
                !.saved = @ \cup result.saved \cup
                          (IF saves
                           THEN {InvoiceFile("handleDownloadInvoice", id)}
                           ELSE {}),
                !.alerted = @ \/ result.alerted,
                !.unhandled = @ \/ ~saves,
                !.last = [by |-> "handleDownloadInvoice", sale |-> id,
                          items |-> n]]
    /\ UNCHANGED <<dbVars, lastOp, user, customerName, items, formProducts,
                   loading, error, issuerName, pending, pc, submit,
                   createdSaleId, emailRequests>>
    /\ UNCHANGED viewVars

\* One staff user records sales through the form and downloads their
\* invoices from the preview and from the sales history.
NextInvoice ==
    \/ loadProducts /\ UNCHANGED <<invoice, viewVars>>
    \/ loadUserProfile /\ UNCHANGED <<invoice, viewVars>>
    \/ setCustomerName("Musa") /\ UNCHANGED <<invoice, viewVars>>
    \/ addItem /\ UNCHANGED <<invoice, viewVars>>
    \/ \E index \in 1..MaxItems, value \in QuantityInputs :
          updateItem(index, "quantity", value) /\ UNCHANGED <<invoice, viewVars>>
    \/ SubmitClick /\ UNCHANGED <<invoice, viewVars>>
    \/ handleSubmitItems /\ UNCHANGED <<invoice, viewVars>>
    \/ handleSubmitDone /\ UNCHANGED <<invoice, viewVars>>
    \/ handleDownload
    \/ handleDownloadDone
    \/ handleCloseInvoice
    \/ \E id \in 1..MaxSales : handleDownloadInvoice(id)

SpecInvoice == InitSalesForm /\ [][NextInvoice]_vars

\* One call of a generator with any arguments: sales with a total and a date
\* that are missing, invalid or valid, and items that are missing, not an
\* array, or an array of up to MaxLines lines.
NoOutcome == Outcome("none", {}, FALSE, "")
ItemsValues == {JsUndefined, JsObject} \cup {JsArray(n) : n \in 0..MaxLines}
DateValues == {Undefined, BadDate, 20251011}
GenCalls ==
    {[pc |-> "called", generator |-> "invoiceGenerator", sale |-> sale,
      itemsArg |-> itemsArg, options |-> options, result |-> NoOutcome] :
        sale \in [id : {1}, total : {Undefined, 0, 2000}, sale_date : DateValues],
        itemsArg \in ItemsValues, options \in {NoOptions, BlobOptions}}
    \cup
    {[pc |-> "called", generator |-> "ofSale", sale |-> sale,
      itemsArg |-> JsUndefined, options |-> NoOptions, result |-> NoOutcome] :
        sale \in [id : {1}, total_amount : {2000}, created_at : DateValues,
                  items : ItemsValues]}
InitGen == InitDb /\ InitComponents /\ gen \in GenCalls /\ InitViews

GenerateInvoice ==
    /\ gen.pc = "called"
    /\ gen.generator = "invoiceGenerator"
    /\ gen' = [gen EXCEPT !.pc = "returned",
                          !.result = generateInvoicePDF(gen.sale, gen.itemsArg,
                                                        gen.options)]
    /\ UNCHANGED <<coreVars, restOfGen>>

GenerateInvoiceOfSale ==
    /\ gen.pc = "called"
    /\ gen.generator = "ofSale"
    /\ gen' = [gen EXCEPT !.pc = "returned",
                          !.result = generateInvoicePDFOfSale(gen.sale, JsObject)]
    /\ UNCHANGED <<coreVars, restOfGen>>

NextGen == GenerateInvoice \/ GenerateInvoiceOfSale
SpecGen == InitGen /\ [][NextGen]_vars


\* -------------------------------------------------------------- customers
\* "Users can view all customers": USING (true)
CustomersSelectUsing(uid, row) == TRUE
\* "Users can create customers": WITH CHECK (auth.uid() = created_by)
CustomersInsertCheck(uid, row) == uid = row.created_by
\* "Users can update customers": USING (true) WITH CHECK (true)
CustomersUpdateUsing(uid, row) == TRUE
CustomersUpdateCheck(uid, row) == TRUE
\* "Users can delete customers": USING (true)
CustomersDeleteUsing(uid, row) == TRUE

\* INSERT INTO customers (name, created_by)
CustomerInsert(uid, name, created_by) ==
    LET row == [id |-> nextId.customers, name |-> name, created_by |-> created_by]
        ok == CustomersInsertCheck(uid, row)
    IN /\ nextId.customers <= MaxCustomers
       /\ IF ok
          THEN /\ customers' = customers @@ (row.id :> row)
               /\ nextId' = [nextId EXCEPT !.customers = @ + 1]
          ELSE UNCHANGED <<customers, nextId>>
       /\ lastOp' = Op("insert", "customers", uid, ok)
       /\ UNCHANGED <<profiles, products, sales, sale_items, company_settings,
                      audit_logs>>

\* UPDATE customers SET <patch> WHERE id = ...
CustomerUpdate(uid, id, patch) ==
    LET visible == /\ id \in DOMAIN customers
                   /\ CustomersSelectUsing(uid, customers[id])
                   /\ CustomersUpdateUsing(uid, customers[id])
        new == Patch(customers[id], patch)
        ok == visible /\ CustomersUpdateCheck(uid, new)
    IN /\ IF ok
          THEN customers' = [customers EXCEPT ![id] = new]
          ELSE UNCHANGED customers
       /\ lastOp' = Op("update", "customers", uid, ok)
       /\ UNCHANGED dbVars

\* DELETE FROM customers WHERE id = ... (no stored sale names a customer:
\* the forms never set sales.customer_id)
CustomerDelete(uid, id) ==
    LET ok == /\ id \in DOMAIN customers
              /\ CustomersSelectUsing(uid, customers[id])
              /\ CustomersDeleteUsing(uid, customers[id])
    IN /\ IF ok
          THEN customers' = Remove(customers, id)
          ELSE UNCHANGED customers
       /\ lastOp' = Op("delete", "customers", uid, ok)
       /\ UNCHANGED dbVars

\* An admin and a staff user each keep sales and customers, and each sends
\* updates and deletes for any row.
CustomerPatch == [name |-> "Renamed"]
InitOwn == InitTables({"u2"}, {SampleProduct}) /\ InitForm
NextOwn ==
    \/ \E uid \in Users :
          /\ SaleInsert(uid, "Musa", uid, FullName(uid), 2000, TRUE)
          /\ UNCHANGED formVars
    \/ \E uid \in Users, id \in 1..MaxSales :
          SaleUpdate(uid, id, SalePatch) /\ UNCHANGED formVars
    \/ \E uid \in Users, id \in 1..MaxSales :
          SaleDelete(uid, id) /\ UNCHANGED formVars
    \/ \E uid \in Users :
          /\ CustomerInsert(uid, "Musa", uid)
          /\ UNCHANGED <<user, customerName, items, formProducts, loading,
                         error, issuerName, pending, pc, submit, createdSaleId,
                         emailRequests, invoice, restOfCustomers>>
    \/ \E uid \in Users, id \in 1..MaxCustomers :
          /\ CustomerUpdate(uid, id, CustomerPatch)
          /\ UNCHANGED <<user, customerName, items, formProducts, loading,
                         error, issuerName, pending, pc, submit, createdSaleId,
                         emailRequests, invoice, restOfCustomers>>
    \/ \E uid \in Users, id \in 1..MaxCustomers :
          /\ CustomerDelete(uid, id)
          /\ UNCHANGED <<user, customerName, items, formProducts, loading,
                         error, issuerName, pending, pc, submit, createdSaleId,
                         emailRequests, invoice, restOfCustomers>>

SpecOwn == InitOwn /\ [][NextOwn]_vars

\* ------------------------------------------------------------ application
\* the page ids of the sidebar menus
adminMenuItems ==
    <<"dashboard", "products", "sales", "sales-history", "transactions",
      "audit", "reports", "settings">>
staffMenuItems == <<"dashboard", "my-transactions">>

\* const isAdmin = role === 'admin'
isAdmin == app.role = "admin"

\* Sidebar: menuItems = isAdmin ? adminMenuItems : staffMenuItems
menuItems == IF isAdmin THEN adminMenuItems ELSE staffMenuItems

\* AppContent.renderPage: the component shown for currentPage
renderPageByPageOnly ==
    CASE app.currentPage = "products" -> "ProductManagement"
      [] app.currentPage = "audit" -> "AuditLog"
      [] OTHER -> IF isAdmin THEN "DashboardPage" ELSE "StaffSalesPage"
renderPage ==
    IF isAdmin
    THEN CASE app.currentPage = "dashboard" -> "DashboardPage"
           [] app.currentPage = "products" -> "ProductManagement"
           [] app.currentPage = "sales" -> "SalesPage"
           [] app.currentPage = "sales-history" -> "AdminSalesHistory"
           [] app.currentPage = "transactions" -> "TransactionMonitoring"
           [] app.currentPage = "audit" -> "AuditLog"
           [] app.currentPage = "reports" -> "ReportsPage"
           [] app.currentPage = "settings" -> "SettingsPage"
           [] OTHER -> "DashboardPage"
    ELSE CASE app.currentPage = "dashboard" -> "StaffSalesPage"
           [] app.currentPage = "my-transactions" -> "SalesHistory"
           [] OTHER -> "StaffSalesPage"

\* what AppContent returns: the loading screen, the login form, or the
\* sidebar with the rendered page
Screen ==
    IF app.authLoading \/ app.roleLoading THEN "Loading"
    ELSE IF app.user = NullUser THEN "LoginForm"
    ELSE renderPage

\* useUserRole's effect for a new value of user: loadUserRole() is started
\* for a user, and role is cleared and loading ends for none
UserChanged(a, u) ==
    IF u = NullUser
    THEN [a EXCEPT !.user = u, !.role = "null", !.roleLoading = FALSE]
    ELSE [a EXCEPT !.user = u, !.loads = @ \cup {u}]

\* the session of the browser is known: some user or none
authResolved(u) ==
    /\ app.authLoading
    /\ app' = [UserChanged(app, u) EXCEPT !.authLoading = FALSE]
    /\ UNCHANGED <<coreVars, restOfApp>>

\* LoginForm: a user signs in
signIn(u) ==
    /\ Screen = "LoginForm"
    /\ app' = UserChanged(app, u)
    /\ UNCHANGED <<coreVars, restOfApp>>

\* Sidebar: onClick={signOut}
signOut ==
    /\ Screen \notin {"Loading", "LoginForm"}
    /\ app' = UserChanged(app, NullUser)
    /\ UNCHANGED <<coreVars, restOfApp>>

\* loadUserRole started for user u answers: select('role').eq('id', u)
\* .maybeSingle() under u's policies; setRole only if a row came back
loadUserRole(u) ==
    /\ u \in app.loads
    /\ app' = [app EXCEPT
                 !.loads = @ \ {u},
                 !.role = IF \E id \in DOMAIN profiles :
                                ProfilesSelectUsing(u, profiles[id]) /\ id = u
                          THEN profiles[u].role ELSE @,
                 !.roleLoading = FALSE]
    /\ UNCHANGED <<coreVars, restOfApp>>

\* Sidebar.handleNavigation(item.id) for an item of the menu shown
handleNavigation(page) ==
    /\ Screen \notin {"Loading", "LoginForm"}
    /\ \E i \in DOMAIN menuItems : menuItems[i] = page
    /\ app' = [app EXCEPT !.currentPage = page]
    /\ UNCHANGED <<coreVars, restOfApp>>

\* the page ids of both menus
PageIds ==
    {adminMenuItems[i] : i \in DOMAIN adminMenuItems}
       \cup {staffMenuItems[i] : i \in DOMAIN staffMenuItems}

\* Users sign in and out of one browser tab and move between pages while
\* profiles are created and changed.
NextApp ==
    \/ \E u \in Users \cup {NullUser} : authResolved(u)
    \/ \E u \in Users : signIn(u)
    \/ signOut
    \/ \E u \in Users : loadUserRole(u)
    \/ \E page \in PageIds : handleNavigation(page)
    \/ \E uid \in Users, r \in RoleValues : ProfileInsert(uid, uid, r) /\ UNCHANGED formVars
    \/ \E uid \in Users, r \in RoleValues : ProfileUpdate(uid, uid, r) /\ UNCHANGED formVars

SpecApp == Init /\ [][NextApp]_vars

\* An admin and a staff user, whose profiles do not change, sign in and out
\* of one browser tab.
InitSessions ==
    /\ InitTables({"u2"}, {SampleProduct})
    /\ InitForm
NextSessions ==
    \/ \E u \in Users \cup {NullUser} : authResolved(u)
    \/ \E u \in Users : signIn(u)
    \/ signOut
    \/ \E u \in Users : loadUserRole(u)
    \/ \E page \in PageIds : handleNavigation(page)

SpecSessions == InitSessions /\ [][NextSessions]_vars

\* ------------------------------------------------------------------ roles
\* profiles.role is text DEFAULT 'staff'; a statement may name any text
ProfilesRoleDefault == "staff"
RoleInputs == {"admin", "manager"}

\* a user's registration: INSERT INTO profiles (id, full_name) for oneself,
\* the role left to its default
register(u) == ProfileInsert(u, u, ProfilesRoleDefault)

\* the migrated database before anyone has registered
InitFresh ==
    /\ profiles = << >>
    /\ products = (SampleProduct.id :> SampleProduct)
    /\ sales = << >>
    /\ sale_items = << >>
    /\ company_settings = [company_name |-> "YAROTECH"]
    /\ audit_logs = << >>
    /\ nextId = [products |-> 2, sales |-> 1, sale_items |-> 1, customers |-> 1]
    /\ lastOp = Op("none", "none", NullUser, FALSE)
    /\ InitForm

\* Users register, write their profiles, and sign in and out.
NextRoles ==
    \/ \E u \in Users : register(u) /\ UNCHANGED formVars
    \/ \E uid \in Users, id \in Users, r \in RoleInputs :
          ProfileInsert(uid, id, r) /\ UNCHANGED formVars
    \/ \E uid \in Users, id \in Users, r \in RoleInputs \cup RoleValues :
          ProfileUpdate(uid, id, r) /\ UNCHANGED formVars
    \/ \E u \in Users \cup {NullUser} : authResolved(u)
    \/ \E u \in Users : signIn(u)
    \/ signOut
    \/ \E u \in Users : loadUserRole(u)

SpecRoles == InitFresh /\ [][NextRoles]_vars

\* ----------------------------------------------------------------- submit
\* A user who may not have registered yet submits the form, with any input
\* and also with none, while an admin deletes products; the notifications
\* come to any end.
InitSubmit ==
    /\ InitTables({}, {SampleProduct, SampleService})
    /\ InitForm
NextSubmit ==
    \/ loadProducts /\ UNCHANGED <<invoice, viewVars>>
    \/ loadUserProfile /\ UNCHANGED <<invoice, viewVars>>
    \/ \E value \in {" ", "Musa"} : setCustomerName(value) /\ UNCHANGED <<invoice, viewVars>>
    \/ addItem /\ UNCHANGED <<invoice, viewVars>>
    \/ \E index \in 1..MaxItems : removeItem(index) /\ UNCHANGED <<invoice, viewVars>>
    \/ handleSubmit /\ UNCHANGED <<invoice, viewVars>>
    \/ handleSubmitItems /\ UNCHANGED <<invoice, viewVars>>
    \/ handleSubmitDone /\ UNCHANGED <<invoice, viewVars>>
    \/ handleCloseInvoice
    \/ \E id \in DOMAIN emailRequests, outcome \in NotificationOutcomes :
          sendEmailNotification(id, outcome)
    \/ register(user) /\ UNCHANGED formVars
    \/ \E id \in 1..MaxProducts : ProductDelete("u1", id) /\ UNCHANGED formVars

SpecSubmit == InitSubmit /\ [][NextSubmit]_vars

\* ------------------------------------------------------ ProductManagement
\* select('*').order('name') on a products table: the sequences that list
\* its rows once each, ordered by name
ProductRows(table) ==
    {s \in [1..Cardinality(DOMAIN table) -> {table[id] : id \in DOMAIN table}] :
        /\ \A i, j \in DOMAIN s : i # j => s[i] # s[j]
        /\ \A i, j \in DOMAIN s : i < j => NameRank(s[i].name) <= NameRank(s[j].name)}

\* ProductManagement.loadProducts after a statement: setProducts(data),
\* setLoading(false)
Reload(table) ==
    \E s \in ProductRows(table) :
       pm' = [pm EXCEPT !.products = s, !.loading = FALSE]

\* the page's first loadProducts, from useEffect
pmLoadProducts ==
    /\ pm.loading
    /\ Reload(products)
    /\ UNCHANGED <<coreVars, restOfPm>>

\* the values typed into the product form
ProductNameInputs == {"Router"}
ProductPriceInputs == {1500}

\* ProductManagement.handleSubmit of the modal opened by "Add Product"
\* (editingProduct null): insert, then loadProducts and closeModal; an error
\* is shown in the modal and the list is not loaded again
pmHandleSubmitAdd(uid, name, price) ==
    /\ ~pm.loading
    /\ ProductInsert(uid, name, price, 1)
    /\ IF lastOp'.ok
       THEN \E s \in ProductRows(products') :
               pm' = [pm EXCEPT !.products = s, !.error = ""]
       ELSE pm' = [pm EXCEPT !.error = "Failed to save product"]

\* ProductManagement.handleSubmit of the modal opened on a listed product:
\* update with productData, which holds the name of the form, the price
\* typed, is_active true and the editor as created_by
pmHandleSubmitEdit(uid, index, price) ==
    /\ ~pm.loading
    /\ index \in DOMAIN pm.products
    /\ ProductUpdate(uid, pm.products[index].id,
                     [name |-> pm.products[index].name,
                      unit_price |-> ToNumeric2(price),
                      stock_quantity |-> pm.products[index].stock_quantity,
                      is_active |-> TRUE, created_by |-> uid])
    /\ \E s \in ProductRows(products') :
          pm' = [pm EXCEPT !.products = s, !.error = ""]

\* ProductManagement.handleDelete of a listed product, confirmed
handleDelete(uid, index) ==
    /\ ~pm.loading
    /\ index \in DOMAIN pm.products
    /\ ProductDelete(uid, pm.products[index].id)
    /\ Reload(products')

\* ProductManagement.toggleActive of a listed product
toggleActive(uid, index) ==
    /\ ~pm.loading
    /\ index \in DOMAIN pm.products
    /\ ProductUpdate(uid, pm.products[index].id,
                     [is_active |-> ~pm.products[index].is_active])
    /\ Reload(products')

\* what the admin's page leaves alone
pmUnchanged ==
    UNCHANGED <<user, customerName, items, formProducts, loading, error,
                issuerName, pending, pc, submit, createdSaleId, emailRequests,
                invoice, restOfPm>>

\* The admin manages the products on the ProductManagement page while a
\* staff user fills in and submits the sales form.
InitCatalog ==
    /\ InitTables({"u2"}, {SampleProduct})
    /\ InitForm
NextCatalog ==
    \/ loadProducts /\ UNCHANGED <<invoice, viewVars>>
    \/ setCustomerName("Musa") /\ UNCHANGED <<invoice, viewVars>>
    \/ addItem /\ UNCHANGED <<invoice, viewVars>>
    \/ SubmitClick /\ UNCHANGED <<invoice, viewVars>>
    \/ handleSubmitItems /\ UNCHANGED <<invoice, viewVars>>
    \/ handleSubmitDone /\ UNCHANGED <<invoice, viewVars>>
    \/ pmLoadProducts
    \/ \E name \in ProductNameInputs, price \in ProductPriceInputs :
          pmHandleSubmitAdd("u1", name, price) /\ pmUnchanged
    \/ \E index \in 1..MaxProducts, price \in ProductPriceInputs :
          pmHandleSubmitEdit("u1", index, price) /\ pmUnchanged
    \/ \E index \in 1..MaxProducts : handleDelete("u1", index) /\ pmUnchanged
    \/ \E index \in 1..MaxProducts : toggleActive("u1", index) /\ pmUnchanged

SpecCatalog == InitCatalog /\ [][NextCatalog]_vars

\* ------------------------------------------------- send-sale-notification
\* "Admins can update email settings": USING and WITH CHECK
EmailSettingsUpdateUsing(uid, row) == HasRole(uid, "admin")
EmailSettingsUpdateCheck(uid, row) == HasRole(uid, "admin")

\* UPDATE email_settings SET <patch>: the rows the policy shows are updated
EmailSettingsUpdate(uid, patch) ==
    /\ email_settings' =
          [i \in DOMAIN email_settings |->
             IF /\ EmailSettingsUpdateUsing(uid, email_settings[i])
                /\ EmailSettingsUpdateCheck(uid, Patch(email_settings[i], patch))
             THEN Patch(email_settings[i], patch)
             ELSE email_settings[i]]
    /\ UNCHANGED <<coreVars, restOfEmailSettings>>

\* A request: its method and its body.  The body is text that is not JSON,
\* the JSON null, or a JSON object whose saleId is absent (Undefined), the
\* empty string or null (NullId), or an id.
NotJson == [json |-> "invalid", saleId |-> Undefined]
JsonNull == [json |-> "null", saleId |-> Undefined]
JsonObject(saleId) == [json |-> "object", saleId |-> saleId]
Methods == {"OPTIONS", "GET", "POST"}
Bodies ==
    {NotJson, JsonNull} \cup
    {JsonObject(id) : id \in {Undefined, NullId} \cup 1..(MaxSales + 1)}
Requests == [method : Methods, body : Bodies]

\* new Response(JSON.stringify(json), {status}); composed tells whether
\* generateEmailHtml was called for the request
NoJson ==
    [error |-> "", message |-> "", success |-> FALSE, saleId |-> NullId,
     recipient |-> ""]
Response(status, json, composed) ==
    [status |-> status, json |-> json, composed |-> composed]
ErrorJson(msg) == [NoJson EXCEPT !.error = msg]

\* .maybeSingle(): the row of a result of one row, else null (no rows here)
MaybeSingle(rows) == IF Len(rows) = 1 THEN rows ELSE << >>

\* .from('sale_items').select(...).eq('sale_id', saleId), with the service
\* role key: no policy applies
ItemsOf(saleId) == {i \in DOMAIN sale_items : sale_items[i].sale_id = saleId}

\* the handler without the test of send_on_sale
serveSettingUnchecked(req) ==
    IF req.method = "OPTIONS" THEN Response(200, NoJson, FALSE)
    ELSE IF req.method # "POST"
    THEN Response(405, ErrorJson("Method not allowed"), FALSE)
    ELSE IF req.body.json # "object"
    THEN Response(500, ErrorJson("thrown"), FALSE)
    ELSE IF Falsy(req.body.saleId)
    THEN Response(400, ErrorJson("Sale ID is required"), FALSE)
    ELSE IF MaybeSingle(email_settings) = << >>
    THEN Response(200, [NoJson EXCEPT !.message = "Email notifications are disabled"],
                  FALSE)
    ELSE IF req.body.saleId \notin DOMAIN sales
    THEN Response(404, ErrorJson("Sale not found"), FALSE)
    ELSE IF ItemsOf(req.body.saleId) = {}
    THEN Response(404, ErrorJson("Sale items not found"), FALSE)
    ELSE Response(200,
                  [NoJson EXCEPT !.success = TRUE,
                                 !.message = "Email notification processed",
                                 !.saleId = req.body.saleId,
                                 !.recipient = email_settings[1].notification_email],
                  TRUE)

\* The Deno.serve handler.  req.json() rejects for a body that is not JSON
\* and destructuring null throws: both are caught and answered with 500.
serve(req) ==
    LET emailSettings == MaybeSingle(email_settings)
        saleId == req.body.saleId
    IN IF req.method = "OPTIONS" THEN Response(200, NoJson, FALSE)
       ELSE IF req.method # "POST"
       THEN Response(405, ErrorJson("Method not allowed"), FALSE)
       ELSE IF req.body.json # "object"
       THEN Response(500, ErrorJson("thrown"), FALSE)
       ELSE IF Falsy(saleId)
       THEN Response(400, ErrorJson("Sale ID is required"), FALSE)
       ELSE IF emailSettings = << >> \/ ~emailSettings[1].send_on_sale
       THEN Response(200,
                     [NoJson EXCEPT !.message = "Email notifications are disabled"],
                     FALSE)
       ELSE IF saleId \notin DOMAIN sales
       THEN Response(404, ErrorJson("Sale not found"), FALSE)
       ELSE IF ItemsOf(saleId) = {}
       THEN Response(404, ErrorJson("Sale items not found"), FALSE)
       ELSE Response(200,
                     [NoJson EXCEPT !.success = TRUE,
                                    !.message = "Email notification processed",
                                    !.saleId = saleId,
                                    !.recipient = emailSettings[1].notification_email],
                     TRUE)

\* a request is served
Serve(req) ==
    /\ edge' = [served |-> TRUE, req |-> req, res |-> serve(req)]
    /\ UNCHANGED <<coreVars, restOfEdge>>

\* the settings an admin may save
EmailSettingsPatches ==
    {[send_on_sale |-> FALSE], [send_on_sale |-> TRUE],
     [notification_email |-> "sales@yarotech.com.ng"]}

\* Requests reach the function while users store sales and sale lines and
\* an admin changes the email settings; the settings row may have been
\* removed.
InitEdge ==
    /\ InitTables({"u2"}, {SampleProduct})
    /\ InitComponents
    /\ gen = NoCall
    /\ InitPages
    /\ email_settings \in {<< >>, <<DefaultEmailSettings>>}
    /\ edge = NoRequest
    /\ report = InitReport
NextEdge ==
    \/ \E req \in Requests : Serve(req)
    \/ \E uid \in Users, patch \in EmailSettingsPatches : EmailSettingsUpdate(uid, patch)
    \/ SaleInsert("u2", "Musa", "u2", FullName("u2"), 2000, FALSE) /\ UNCHANGED formVars
    \/ \E line \in LineInputs : SaleItemInsert("u2", line) /\ UNCHANGED formVars
    \/ \E id \in 1..MaxSales : SaleDelete("u1", id) /\ UNCHANGED formVars

SpecEdge == InitEdge /\ [][NextEdge]_vars

\* --------------------------------------------------------------- AuditLog
\* .from('profiles').select('full_name').eq('id', id).maybeSingle() sent by
\* uid: the name, or null (here "") when no row is shown
ProfileNameFor(uid, id) ==
    IF id \in DOMAIN profiles /\ ProfilesSelectUsing(uid, profiles[id])
    THEN profiles[id].full_name
    ELSE ""

\* user_name of an entry: profile?.full_name || 'Unknown User', and
\* 'System' for an entry without user_id
UserNameFor(uid, id) ==
    IF id = NullUser THEN "System"
    ELSE IF ProfileNameFor(uid, id) = "" THEN "Unknown User"
    ELSE ProfileNameFor(uid, id)

\* AuditLog.loadAuditLogs by the signed-in user uid: the entries the
\* policies show, newest first, each with its user_name
loadAuditLogs(uid) ==
    LET shown == SelectSeq([i \in DOMAIN audit_logs |->
                              [at |-> i, row |-> audit_logs[i]]],
                           LAMBDA e : AuditLogsSelectUsing(uid, e.row))
        n == Len(shown)
    IN /\ auditView' =
             [logs |-> [k \in 1..n |->
                          [at |-> shown[n + 1 - k].at,
                           user_id |-> shown[n + 1 - k].row.user_id,
                           action_type |-> shown[n + 1 - k].row.action_type,
                           user_name |-> UserNameFor(uid, shown[n + 1 - k].row.user_id)]],
              loading |-> FALSE]
       /\ UNCHANGED <<coreVars, restOfAuditView>>

\* The admin opens the audit log while both users change products and
\* store sales.
InitAudit ==
    /\ InitTables({"u2"}, {SampleProduct})
    /\ InitForm
NextAudit ==
    \/ loadAuditLogs("u1")
    \/ \E uid \in Users : SaleInsert(uid, "Musa", uid, FullName(uid), 2000, FALSE) /\ UNCHANGED formVars
    \/ \E id \in 1..MaxSales : SaleDelete("u1", id) /\ UNCHANGED formVars
    \/ \E id \in 1..MaxProducts, patch \in ProductPatches :
          ProductUpdate("u1", id, patch) /\ UNCHANGED formVars

SpecAudit == InitAudit /\ [][NextAudit]_vars

\* ---------------------------------------- ReportsPage, TransactionMonitoring
\* Text is a sequence of characters.  Instants are whole hours since the
\* epoch (UTC); a date of a date input is a day number, 0 for the empty
\* input; tz is the browser's offset from UTC in hours.
ToLower(c) ==
    CASE c = "A" -> "a" [] c = "B" -> "b" [] c = "M" -> "m" [] OTHER -> c
toLowerCase(str) == [i \in DOMAIN str |-> ToLower(str[i])]
includes(str, sub) ==
    \E i \in 0..(Len(str) - Len(sub)) : SubSeq(str, i + 1, i + Len(sub)) = sub

\* new Date('YYYY-MM-DD'): midnight UTC of the day
DateOf(day) == day * 24
\* the calendar day of an instant in the browser's time zone
LocalDay(t, tz) == (t + tz) \div 24
\* endDate = new Date(toDate); endDate.setHours(23, 59, 59, 999): the last
\* whole hour of the local day that holds midnight UTC of toDate
EndDate(day, tz) == (LocalDay(DateOf(day), tz) + 1) * 24 - tz - 1

\* applyFilters, run by the effect on [sales, fromDate, toDate,
\* searchCustomer, searchIssuer]
applyFilters(r) ==
    LET a == IF r.fromDate # 0
             THEN SelectSeq(r.sales, LAMBDA sale :
                     sale.created_at >= DateOf(r.fromDate))
             ELSE r.sales
        b == IF r.toDate # 0
             THEN SelectSeq(a, LAMBDA sale : sale.created_at <= EndDate(r.toDate, r.tz))
             ELSE a
        c == IF r.searchCustomer # << >>
             THEN SelectSeq(b, LAMBDA sale :
                     includes(toLowerCase(sale.customer_name),
                              toLowerCase(r.searchCustomer)))
             ELSE b
        d == IF r.searchIssuer # << >>
             THEN SelectSeq(c, LAMBDA sale :
                     includes(toLowerCase(sale.issuer_name),
                              toLowerCase(r.searchIssuer)))
             ELSE c
    IN [r EXCEPT !.filteredSales = d]

\* calculateTotal of the pages: filteredSales.reduce((sum, sale) =>
\* sum + Number(sale.total_amount), 0)
RECURSIVE SumTotalAmount(_)
SumTotalAmount(array) ==
    IF array = << >> THEN 0
    ELSE array[1].total_amount + SumTotalAmount(Tail(array))
reportTotal(r) == SumTotalAmount(r.filteredSales)

\* rows of sales as the query returns them
ReportSale(id, customer, issuer, amount, at) ==
    [id |-> id, customer_name |-> customer, issuer_name |-> issuer,
     total_amount |-> amount, created_at |-> at, status |-> "completed"]
ReportSales ==
    {ReportSale(1, <<"M", "u">>, <<"B", "a">>, 1000, 47),
     ReportSale(2, <<"A", ",", "b">>, <<"A", "d">>, 2500, 30),
     ReportSale(3, <<"A", "m">>, <<"B", "a">>, 2000, 23)}
\* .order('created_at', { ascending: false }): the results a load can bring
LoadedSales ==
    {data \in UNION {[1..n -> ReportSales] : n \in 0..MaxLoaded} :
        \A i, j \in DOMAIN data : i < j => data[i].created_at > data[j].created_at}

\* loadSales of the page answers; the effect applies the filters
loadReportSales(data) ==
    /\ report.loading
    /\ report' = applyFilters([report EXCEPT !.sales = data, !.loading = FALSE])
    /\ UNCHANGED <<coreVars, restOfReport>>

\* onChange of the four filter inputs; the effect applies the filters
setFromDate(day) ==
    /\ ~report.loading
    /\ report' = applyFilters([report EXCEPT !.fromDate = day])
    /\ UNCHANGED <<coreVars, restOfReport>>
setToDate(day) ==
    /\ ~report.loading
    /\ report' = applyFilters([report EXCEPT !.toDate = day])
    /\ UNCHANGED <<coreVars, restOfReport>>
setSearchCustomer(text) ==
    /\ ~report.loading
    /\ report' = applyFilters([report EXCEPT !.searchCustomer = text])
    /\ UNCHANGED <<coreVars, restOfReport>>
setSearchIssuer(text) ==
    /\ ~report.loading
    /\ report' = applyFilters([report EXCEPT !.searchIssuer = text])
    /\ UNCHANGED <<coreVars, restOfReport>>

\* array.join(sep) of an array of texts
RECURSIVE Join(_, _)
Join(array, sep) ==
    IF array = << >> THEN << >>
    ELSE IF Len(array) = 1 THEN array[1]
    ELSE array[1] \o <<sep>> \o Join(Tail(array), sep)

\* the cells of the line of one sale: the date as format() prints it in
\* local time, the names as they are, the amount, the status
CsvRow(sale, tz) ==
    <<<<ToString(sale.created_at + tz)>>, sale.customer_name, sale.issuer_name,
      <<ToString(sale.total_amount)>>, <<sale.status>>>>

\* ReportsPage.exportToCSV: the text of the file
exportToCSV ==
    /\ report.page = "ReportsPage"
    /\ ~report.loading
    /\ LET headers == <<<<"Date">>, <<"Customer">>, <<"Issued By">>, <<"Amount">>,
                        <<"Status">>>>
           rows == [k \in DOMAIN report.filteredSales |->
                      CsvRow(report.filteredSales[k], report.tz)]
           total == <<<<"Total">>, << >>, << >>, <<ToString(reportTotal(report))>>,
                      << >>>>
       IN report' = [report EXCEPT !.csv =
             Join(<<Join(headers, ",")>>
                    \o [k \in DOMAIN rows |-> Join(rows[k], ",")]
                    \o <<<< >>, Join(total, ",")>>,
                  "\n")]
    /\ UNCHANGED <<coreVars, restOfReport>>

\* the inputs typed into the filters
DateInputs == {0, 1}
CustomerInputs == {<< >>, <<"m">>}
IssuerInputs == {<< >>, <<"b">>}

\* An admin opens ReportsPage or TransactionMonitoring in a browser of time
\* zone UTC or UTC+1 (Lagos), filters the sales and exports them.
InitReports ==
    /\ InitTables({"u2"}, {SampleProduct})
    /\ InitComponents
    /\ gen = NoCall
    /\ InitPages
    /\ email_settings = <<DefaultEmailSettings>>
    /\ edge = NoRequest
    /\ report \in {[InitReport EXCEPT !.page = p, !.tz = z] :
                      p \in {"ReportsPage", "TransactionMonitoring"}, z \in {0, 1}}
NextReports ==
    \/ \E data \in LoadedSales : loadReportSales(data)
    \/ \E day \in DateInputs : setFromDate(day)
    \/ \E day \in DateInputs : setToDate(day)
    \/ \E text \in CustomerInputs : setSearchCustomer(text)
    \/ \E text \in IssuerInputs : setSearchIssuer(text)
    \/ exportToCSV

SpecReports == InitReports /\ [][NextReports]_vars

\* ------------------------------------------------------------ properties
RoleOf(u) == IF u \in DOMAIN profiles THEN profiles[u].role ELSE "none"
Writes == {"insert", "update", "delete"}

\* C1: only admins mutate products: a step that changes the products table,
\* or a products insert, update or delete that succeeds, is sent by a user
\* whose profile role is 'admin'; for any other user the statement is
\* rejected and products is unchanged.
OnlyAdminsMutateProducts ==
    [][/\ products' # products =>
            lastOp'.table = "products" /\ RoleOf(lastOp'.user) = "admin"
       /\ (lastOp'.table = "products" /\ lastOp'.kind \in Writes
             /\ RoleOf(lastOp'.user) # "admin") =>
            ~lastOp'.ok /\ products' = products]_vars

\* a staff user's update of a stored product has just been rejected
StaffProductWriteRejected ==
    /\ lastOp.table = "products" /\ lastOp.kind \in {"update", "delete"}
    /\ ~lastOp.ok
    /\ RoleOf(lastOp.user) = "staff"
    /\ DOMAIN products # {}

\* C2: a read of sales by a staff user returns exactly the sales whose
\* issuer_id is that user, and a read by an admin returns all sales.
StaffSeeOnlyOwnSales ==
    (lastOp.table = "sales" /\ lastOp.kind \in {"select", "loadSales"}) =>
        /\ RoleOf(lastOp.user) = "staff" =>
              lastOp.rows = {id \in DOMAIN sales : sales[id].issuer_id = lastOp.user}
        /\ (RoleOf(lastOp.user) = "admin" /\ lastOp.kind = "select") =>
              lastOp.rows = DOMAIN sales

\* a staff user has read their own sale while another user's sale is stored
StaffReadWithForeignSale ==
    /\ lastOp.table = "sales" /\ lastOp.kind = "select"
    /\ RoleOf(lastOp.user) = "staff"
    /\ lastOp.rows # {}
    /\ \E id \in DOMAIN sales : sales[id].issuer_id # lastOp.user

\* C3: a profile whose role is 'staff' never becomes 'admin' by a statement
\* of an authenticated user.
StaffNeverBecomesAdmin ==
    [][\A u \in Users : RoleOf(u) = "staff" => profiles'[u].role # "admin"]_vars

\* C4: every successful insert, update or delete of a products or sales row
\* appends in the same step exactly one audit_logs entry naming the action,
\* the table, the row id, the acting user and the row snapshot (old and new
\* row for an update).
AuditOnEveryChange ==
    [][(lastOp'.ok /\ lastOp'.table \in {"products", "sales"}
          /\ lastOp'.kind \in Writes) =>
         LET old == IF lastOp'.table = "products" THEN products ELSE sales
             new == IF lastOp'.table = "products" THEN products' ELSE sales'
             e == audit_logs'[Len(audit_logs')]
         IN /\ Len(audit_logs') = Len(audit_logs) + 1
            /\ SubSeq(audit_logs', 1, Len(audit_logs)) = audit_logs
            /\ e.user_id = lastOp'.user
            /\ e.entity_type = lastOp'.table
            /\ lastOp'.kind = "insert" =>
                  /\ e.action_type = "CREATE"
                  /\ e.entity_id \in DOMAIN new \ DOMAIN old
                  /\ e.details = new[e.entity_id]
            /\ lastOp'.kind = "update" =>
                  /\ e.action_type = "UPDATE"
                  /\ e.entity_id \in DOMAIN new /\ DOMAIN new = DOMAIN old
                  /\ e.details = [old |-> old[e.entity_id], new |-> new[e.entity_id]]
                  /\ \A id \in DOMAIN old \ {e.entity_id} : new[id] = old[id]
            /\ lastOp'.kind = "delete" =>
                  /\ e.action_type = "DELETE"
                  /\ e.entity_id \in DOMAIN old \ DOMAIN new
                  /\ e.details = old[e.entity_id]]_vars

\* a row has just been deleted and an update was logged before
DeleteAfterUpdateLogged ==
    /\ lastOp.ok /\ lastOp.kind = "delete" /\ lastOp.table \in {"products", "sales"}
    /\ \E i \in DOMAIN audit_logs :
          /\ audit_logs[i].action_type = "UPDATE"
          /\ audit_logs[i].details.old # audit_logs[i].details.new

\* C5: an audit_logs entry once written stays in place with unchanged action,
\* entity and details whatever statement a user sends, and a read of
\* audit_logs returns rows only to a user whose role is 'admin'.
AuditLogReadOnly ==
    [][/\ \A i \in DOMAIN audit_logs :
            /\ i \in DOMAIN audit_logs'
            /\ audit_logs'[i].action_type = audit_logs[i].action_type
            /\ audit_logs'[i].entity_type = audit_logs[i].entity_type
            /\ audit_logs'[i].entity_id = audit_logs[i].entity_id
            /\ audit_logs'[i].details = audit_logs[i].details
       /\ (lastOp'.table = "audit_logs" /\ lastOp'.kind = "select"
             /\ lastOp'.rows # {}) => RoleOf(lastOp'.user) = "admin"]_vars

\* an admin's update or delete of a stored audit row has just been rejected
AdminAuditWriteRejected ==
    /\ lastOp.table = "audit_logs" /\ lastOp.kind \in {"update", "delete"}
    /\ ~lastOp.ok
    /\ RoleOf(lastOp.user) = "admin"
    /\ audit_logs # << >>

\* C6: audit_logs grows only by the trigger, that is only in a step that
\* successfully changes a products or sales row.
AuditWrittenOnlyByTrigger ==
    [][audit_logs' # audit_logs =>
          lastOp'.ok /\ lastOp'.table \in {"products", "sales"}]_vars

\* C7: every change to a product, sale, sale line item, profile or company
\* settings row results in an audit log entry.
AuditTrailComplete ==
    [][(products' # products \/ sales' # sales \/ sale_items' # sale_items
          \/ profiles' # profiles \/ company_settings' # company_settings) =>
         Len(audit_logs') > Len(audit_logs)]_vars

\* C8: an update or delete of a product leaves every stored line in place
\* with its product_name, quantity, unit_price and total_price; deleting the
\* product only sets the product_id of its lines to null.
LineItemIsSnapshot ==
    [][lastOp'.table = "products" =>
         /\ DOMAIN sale_items' = DOMAIN sale_items
         /\ \A i \in DOMAIN sale_items :
              /\ sale_items'[i].sale_id = sale_items[i].sale_id
              /\ sale_items'[i].product_name = sale_items[i].product_name
              /\ sale_items'[i].quantity = sale_items[i].quantity
              /\ sale_items'[i].unit_price = sale_items[i].unit_price
              /\ sale_items'[i].total_price = sale_items[i].total_price
              /\ sale_items'[i].product_id =
                    IF sale_items[i].product_id \in DOMAIN products'
                    THEN sale_items[i].product_id ELSE NullId]_vars

\* the product of a stored line has just been deleted
LineProductDeleted ==
    /\ lastOp.table = "products" /\ lastOp.kind = "delete" /\ lastOp.ok
    /\ \E i \in DOMAIN sale_items :
          sale_items[i].product_id = NullId /\ sale_items[i].quantity > 0

\* the total_price of the stored lines of a sale, added up
RECURSIVE SumStored(_)
SumStored(ids) ==
    IF ids = {} THEN 0
    ELSE LET id == CHOOSE x \in ids : TRUE
         IN sale_items[id].total_price + SumStored(ids \ {id})

\* C9: every line in the sales form has total_price = quantity * unit_price,
\* and the sale stored by a successful submit has total_amount equal to the
\* sum of total_price over the line items stored for it.
TotalsAreComputed ==
    /\ \A i \in DOMAIN items :
          items[i].total_price = items[i].quantity * items[i].unit_price
    /\ (createdSaleId # NullId /\ createdSaleId \in DOMAIN sales) =>
          sales[createdSaleId].total_amount =
             SumStored({id \in DOMAIN sale_items :
                          sale_items[id].sale_id = createdSaleId})
\* C10: a download of the invoice of a stored sale with at least one line
\* item ends well: after InvoicePreview.handleDownload the preview shows
\* 'Invoice downloaded successfully!' with loading false and the browser has
\* saved the document, and after SalesHistory.handleDownloadInvoice the
\* browser has saved the document and nothing was thrown.
InvoiceDownloaded ==
    /\ (/\ invoice.last.by = "handleDownload"
        /\ invoice.last.items >= 1
        /\ invoice.last.sale = createdSaleId) =>
          /\ invoice.message = "Invoice downloaded successfully!"
          /\ ~invoice.loading
          /\ InvoiceFile("handleDownload", invoice.last.sale) \in invoice.saved
    /\ (/\ invoice.last.by = "handleDownloadInvoice"
        /\ invoice.last.items >= 1) =>
          /\ InvoiceFile("handleDownloadInvoice", invoice.last.sale) \in invoice.saved
          /\ ~invoice.unhandled
\* the items a generator call was given: none at all, or an empty array
ZeroItems ==
    LET given == IF gen.generator = "invoiceGenerator" THEN gen.itemsArg
                 ELSE gen.sale.items
    IN given = JsUndefined \/ given = JsArray(0)

\* C11: a call of either generator for a sale with zero line items returns
\* no document and no blob, saves no file, and reports an error (an alert,
\* or an error thrown to the caller).
NoItemsNoInvoice ==
    (gen.pc = "returned" /\ ZeroItems) =>
        /\ gen.result.returned \notin {"doc", "blob"}
        /\ gen.result.saved = {}
        /\ gen.result.alerted \/ gen.result.thrown # ""

\* the generator of utils/invoiceGenerator.ts was called with an empty array
\* for a sale whose total and date are valid, and it alerted
EmptyItemsAlerted ==
    /\ gen.pc = "returned"
    /\ gen.generator = "invoiceGenerator"
    /\ gen.itemsArg = JsArray(0)
    /\ gen.sale.total > 0
    /\ ~IsNaN(GetTime(gen.sale.sale_date))
    /\ gen.result.alerted
    /\ gen.result.returned = "null"
\* C12: whenever the loaded role is not 'admin', renderPage gives the staff
\* sale form or the staff sales history whatever currentPage is, the screen
\* shows nothing else but the loading screen or the login form, and the
\* sidebar offers the staff menu items only.
StaffSeeStaffPages ==
    app.role # "admin" =>
        /\ renderPage \in {"StaffSalesPage", "SalesHistory"}
        /\ Screen \in {"Loading", "LoginForm", "StaffSalesPage", "SalesHistory"}
        /\ menuItems = staffMenuItems

\* a staff user is signed in on a tab that an admin left on an admin page
StaffOnAdminPageId ==
    /\ app.role = "staff"
    /\ app.user = "u2"
    /\ app.currentPage = "products"
    /\ Screen = "StaffSalesPage"
\* C13: an update or delete sent by a user whose role is 'staff' leaves
\* unchanged every sale whose issuer is another user and every customer
\* created by another user.
StaffManageOwnDataOnly ==
    [][(/\ lastOp'.kind \in {"update", "delete"}
        /\ RoleOf(lastOp'.user) = "staff") =>
          /\ \A id \in DOMAIN sales :
                sales[id].issuer_id # lastOp'.user =>
                   id \in DOMAIN sales' /\ sales'[id] = sales[id]
          /\ \A id \in DOMAIN customers :
                customers[id].created_by # lastOp'.user =>
                   id \in DOMAIN customers' /\ customers'[id] = customers[id]]_vars
\* C14: every line stored for a sale that a staff user recorded through the
\* sales form carries the unit price that the catalogue holds for its
\* product.
StaffLinesAtCatalogPrice ==
    \A id \in DOMAIN sale_items :
        LET line == sale_items[id]
        IN (/\ line.sale_id \in DOMAIN sales
            /\ RoleOf(sales[line.sale_id].issuer_id) = "staff"
            /\ line.product_id \in DOMAIN products) =>
              line.unit_price = products[line.product_id].unit_price
\* C15: every profile's role is 'admin' or 'staff'; the first user to
\* register gets the role 'admin' and every user who registers later gets
\* the role 'staff'.
RolesEnforced ==
    [][/\ \A u \in DOMAIN profiles' : profiles'[u].role \in RoleValues
       /\ \A u \in Users :
             (u \notin DOMAIN profiles /\ register(u)) =>
                profiles'[u].role = IF DOMAIN profiles = {} THEN "admin"
                                    ELSE "staff"]_vars
\* the lines stored for a sale in the state after the step
StoredLinesAfter(id) ==
    {i \in DOMAIN sale_items' : sale_items'[i].sale_id = id}

\* C16: whenever onSaleCreated makes the page show the invoice preview for
\* a sale id, that sale is stored and so is every line that was in the form
\* when it was submitted (at least one); no preview follows a submit whose
\* insert into sales or into sale_items failed.
PreviewOnlyForStoredSale ==
    [][(createdSaleId' # createdSaleId /\ createdSaleId' # NullId) =>
          /\ createdSaleId' \in DOMAIN sales'
          /\ submit.lines >= 1
          /\ Cardinality(StoredLinesAfter(createdSaleId')) = submit.lines
          /\ createdSaleId' = submit.saleId]_vars

\* the preview is shown for a sale that is stored with its line
PreviewShownForStoredSale ==
    /\ createdSaleId # NullId
    /\ createdSaleId \in DOMAIN sales
    /\ \E i \in DOMAIN sale_items : sale_items[i].sale_id = createdSaleId
    /\ pc = "idle"

\* C19: a run of handleSubmit with an empty or whitespace-only customer name
\* or with no items sets the respective error message, inserts nothing into
\* sales or sale_items, does not call onSaleCreated, and leaves customerName,
\* items and loading as they were.
InvalidSubmitRejected ==
    [][(handleSubmit /\ (Trim(customerName) = "" \/ Len(items) = 0)) =>
          /\ error' = IF Trim(customerName) = "" THEN "Customer name is required"
                      ELSE "Add at least one item"
          /\ UNCHANGED <<sales, sale_items, createdSaleId, customerName, items,
                         loading>>]_vars

\* both messages have been given: for a whitespace-only name with a line in
\* the form, and for a name with no line
BlankNameRejected ==
    /\ error = "Customer name is required"
    /\ customerName = " "
    /\ Len(items) > 0
    /\ sales = << >>
    /\ ~loading

\* C20: the notification has no part in the outcome of a submit: once both
\* inserts have succeeded the end of handleSubmit resets the form, calls
\* onSaleCreated, sets no error and ends loading, and whatever end the
\* notification comes to later changes nothing in the form or the page.
NotificationNeverMatters ==
    [][/\ (pc = "itemsInserted" /\ submit.ok /\ pc' # pc) =>
             /\ customerName' = "" /\ items' = << >>
             /\ createdSaleId' = submit.saleId
             /\ error' = "" /\ ~loading'
       /\ (\E id \in DOMAIN emailRequests :
              emailRequests'[id] # emailRequests[id]) =>
             UNCHANGED <<customerName, items, createdSaleId, error, loading,
                         pc, sales, sale_items>>]_vars

\* a sale is created and shown although its notification failed
CreatedThoughNotificationFailed ==
    /\ createdSaleId # NullId
    /\ createdSaleId \in DOMAIN emailRequests
    /\ emailRequests[createdSaleId] \in {"unreachable", "noSession", "errorResponse"}
    /\ error = ""
    /\ ~loading
    /\ customerName = "" /\ items = << >>

\* the products a sales form offers are the stored active products with
\* their current prices
FormOffersStoredActive ==
    /\ {formProducts[i].id : i \in DOMAIN formProducts}
          = {id \in DOMAIN products : products[id].is_active}
    /\ \A i \in DOMAIN formProducts :
          formProducts[i].unit_price = products[formProducts[i].id].unit_price

\* C17: once an admin's create, edit, deactivate or delete of a product has
\* completed, the ProductManagement list is the stored products and a sales
\* form that has loaded its products offers exactly the stored active
\* products at their current prices; and every sale line stored names a
\* product that is stored and active.
ProductChangesReflected ==
    [][/\ (pm' # pm /\ ~pm.loading /\ pm'.error = "") =>
             /\ {pm'.products[i] : i \in DOMAIN pm'.products}
                   = {products'[id] : id \in DOMAIN products'}
             /\ ("loadProducts" \notin pending => FormOffersStoredActive')
       /\ \A i \in DOMAIN sale_items' \ DOMAIN sale_items :
             /\ sale_items'[i].product_id \in DOMAIN products
             /\ products[sale_items'[i].product_id].is_active]_vars

\* C18: a request other than POST and OPTIONS is answered 405; a POST whose
\* body cannot be read is answered 500 and one without saleId 400; a POST
\* with a saleId is answered 200 'Email notifications are disabled', with
\* no email composed, when there is no email_settings row or send_on_sale
\* is false, 200 success with the notification_email as recipient when
\* send_on_sale is true and the sale is stored with at least one line, and
\* 404 otherwise.
NotificationsGovernedBySetting ==
    [][edge' # edge =>
         LET req == edge'.req
             res == edge'.res
             saleId == req.body.saleId
             disabled == \/ Len(email_settings) = 0
                         \/ \A i \in DOMAIN email_settings :
                               ~email_settings[i].send_on_sale
             stored == /\ saleId \in DOMAIN sales
                       /\ \E i \in DOMAIN sale_items : sale_items[i].sale_id = saleId
         IN /\ req.method \notin {"POST", "OPTIONS"} => res.status = 405
            /\ req.method = "POST" =>
                  IF req.body.json # "object" THEN res.status = 500
                  ELSE IF saleId \in {Undefined, NullId} THEN res.status = 400
                  ELSE IF disabled
                  THEN /\ res.status = 200
                       /\ res.json.message = "Email notifications are disabled"
                       /\ ~res.composed
                  ELSE IF stored
                  THEN /\ res.status = 200
                       /\ res.json.success
                       /\ res.json.recipient = email_settings[1].notification_email
                  ELSE res.status = 404]_vars

\* a notification was composed for a stored sale and addressed to the
\* address an admin had saved
NotificationComposed ==
    /\ edge.served
    /\ edge.res.composed
    /\ edge.res.json.recipient = "sales@yarotech.com.ng"
    /\ edge.res.json.saleId \in DOMAIN sales

\* C24: when handleSubmit finishes, either the sale row is stored with all
\* the lines the form held at submit, or neither the sale row nor any line
\* of it is stored.
SaleCreationAllOrNothing ==
    [][(pc # "idle" /\ pc' = "idle") =>
          \/ /\ submit.saleId \in DOMAIN sales'
             /\ Cardinality(StoredLinesAfter(submit.saleId)) = submit.lines
          \/ /\ submit.saleId \notin DOMAIN sales'
             /\ StoredLinesAfter(submit.saleId) = {}]_vars

\* C25: every sale the form stores names the signed-in user as issuer_id
\* and the full_name of that user's profile as issuer_name.
IssuerIsSignedInUser ==
    [][\A id \in DOMAIN sales' \ DOMAIN sales :
          /\ sales'[id].issuer_id = user
          /\ user \in DOMAIN profiles
          /\ sales'[id].issuer_name = profiles[user].full_name]_vars

\* C27: no step of handleSubmit changes a product, and the lines of a
\* stored sale are stored whatever their quantities.
SalesLeaveProductsAlone ==
    [][/\ (pc # "idle" \/ pc' # "idle") => products' = products
       /\ (pc = "saleInserted" /\ submit.ok /\ pc' = "itemsInserted") =>
             /\ submit'.ok
             /\ Cardinality(StoredLinesAfter(submit.saleId)) = submit.lines]_vars

\* a line is stored for more units than the product has in stock, and the
\* product is as it was
OversoldLineStored ==
    \E i \in DOMAIN sale_items :
       /\ sale_items[i].product_id \in DOMAIN products
       /\ sale_items[i].quantity > products[sale_items[i].product_id].stock_quantity
       /\ products[1] = SampleProduct
       /\ products[2] = SampleService

\* C26: whenever AppContent renders a page with isAdmin true, the profile
\* of the signed-in user has the role admin.
AdminInterfaceOnlyForAdmins ==
    (Screen \notin {"Loading", "LoginForm"} /\ isAdmin) =>
       /\ app.user \in DOMAIN profiles
       /\ profiles[app.user].role = "admin"

\* C23: when the audit log is loaded, every entry whose user_id has a
\* profile is shown with that profile's full_name, whoever caused it, and
\* every entry without user_id is shown as 'System'.
AuditLogShowsActors ==
    [][auditView' # auditView =>
          \A k \in DOMAIN auditView'.logs :
             LET log == auditView'.logs[k]
             IN /\ log.user_id \in DOMAIN profiles =>
                      log.user_name = profiles[log.user_id].full_name
                /\ log.user_id = NullUser => log.user_name = "System"]_vars

\* a sale satisfies the filters of r: its local calendar day is not before
\* fromDate and not after toDate, and its customer and issuer names hold
\* the search texts, letter case aside; an empty filter admits every sale
SatisfiesFilters(sale, r) ==
    /\ r.fromDate # 0 => LocalDay(sale.created_at, r.tz) >= r.fromDate
    /\ r.toDate # 0 => LocalDay(sale.created_at, r.tz) <= r.toDate
    /\ includes(toLowerCase(sale.customer_name), toLowerCase(r.searchCustomer))
    /\ includes(toLowerCase(sale.issuer_name), toLowerCase(r.searchIssuer))

\* C21: once the filters have been applied, filteredSales is the loaded
\* sales that satisfy every non-empty filter, in their order, and the
\* page shows their number, which is at most the number loaded.
FiltersSelectMatchingSales ==
    [][report' # report =>
          /\ report'.filteredSales =
                SelectSeq(report'.sales, LAMBDA sale : SatisfiesFilters(sale, report'))
          /\ Len(report'.filteredSales) <= Len(report'.sales)]_vars

\* the texts between the separators of a text
RECURSIVE Split(_, _)
Split(text, sep) ==
    IF \A i \in DOMAIN text : text[i] # sep THEN <<text>>
    ELSE LET i == CHOOSE k \in DOMAIN text :
                     text[k] = sep /\ \A j \in 1..(k - 1) : text[j] # sep
         IN <<SubSeq(text, 1, i - 1)>> \o Split(SubSeq(text, i + 1, Len(text)), sep)

\* C22: the exported file is a header line of five columns, one line of
\* exactly five fields (date, customer, issuer, amount, status) for each
\* sale of filteredSales in order, and a total line whose amount is the
\* sum of the amounts of the rows.
CsvIsFaithful ==
    [][report'.csv # report.csv =>
          LET lines == Split(report'.csv, "\n")
              n == Len(report.filteredSales)
          IN /\ Len(lines) = n + 3
             /\ Len(Split(lines[1], ",")) = 5
             /\ \A k \in 1..n :
                   Split(lines[k + 1], ",") = CsvRow(report.filteredSales[k], report.tz)
             /\ Len(Split(lines[n + 3], ",")) = 5
             /\ Split(lines[n + 3], ",")[4] =
                   <<ToString(SumTotalAmount(report.filteredSales))>>]_vars
====
